---------------------------- MODULE Spec2Model ----------------------------
(***************************************************************************)
(* A model of the scene editor of src/src/App.jsx (the last App of the     *)
(* file, lines 618-1630): the scene (cylinderParams, sphereParams), the    *)
(* selection, the text export (handleExport), the text import              *)
(* (handleFileImport and its FileReader completion) and the collision      *)
(* engine (detectCollisions and the three pairwise tests).                 *)
(*                                                                         *)
(* Numbers.  A JavaScript Number is modelled in fixed point: the integer v *)
(* stands for v / One, One = 10^7, so that one more decimal is kept than   *)
(* toFixed(6) prints and formatting really rounds.  NaN is a value of its  *)
(* own that every operation propagates.  Unit vectors and the values of    *)
(* Math.sin / Math.cos are kept with TrigOne = 10^8.  An angle is the      *)
(* rotation field itself: the integer a stands for a / One half turns      *)
(* (a * pi / One radians), which is what rotation.map(v => v * Math.PI)    *)
(* hands to Math.cos and Math.sin.  The sign of zero is not modelled.      *)
(* TLC's integers are 32 bits wide, so products go through two-limb        *)
(* arithmetic (Mul2, DivBig, SqrtBig).                                     *)
(***************************************************************************)
EXTENDS Integers, Sequences, FiniteSets, TLC

\* ------------------------------------------------------------------------
\* Number: the fixed-point representation of a JavaScript Number
\* ------------------------------------------------------------------------

\* 1.0, in units of 1e-7
One == 10000000

\* 1.0 for direction cosines, in units of 1e-8
TrigOne == 100000000

\* 10^6: the six decimals of toFixed(6)
Micro == 1000000

\* Number.NaN: a value outside the range of the numbers of the model
NaN == 2147483647

IsNaN(x) == x = NaN

Abs(x) == IF x < 0 THEN -x ELSE x

Sgn(x) == IF x < 0 THEN -1 ELSE IF x > 0 THEN 1 ELSE 0

Max2(a, b) == IF a >= b THEN a ELSE b

Min2(a, b) == IF a <= b THEN a ELSE b

\* base of the two-limb numbers <<hi, lo>> = hi * Limb + lo, 0 <= lo < Limb
Limb == 100000000

HalfLimb == 10000

\* a * b for 0 <= a, b <= 460000000, as a two-limb number
Mul2(a, b) ==
  LET a1 == a \div HalfLimb
      a0 == a % HalfLimb
      b1 == b \div HalfLimb
      b0 == b % HalfLimb
      mid == a1 * b0 + a0 * b1
      low == (mid % HalfLimb) * HalfLimb + a0 * b0
  IN  << a1 * b1 + (mid \div HalfLimb) + (low \div Limb), low % Limb >>

Add2(p, q) ==
  LET low == p[2] + q[2]
  IN  << p[1] + q[1] + (low \div Limb), low % Limb >>

\* p <= q for two-limb numbers
Leq2(p, q) == p[1] < q[1] \/ (p[1] = q[1] /\ p[2] <= q[2])

\* one step of the long division by c.  d = << r, q, low, k >>: the remainder
\* and the quotient so far, and the k digits of low still to bring down
DivStep(d, c, t, pow) ==
  << t % c, d[2] * 10 + (t \div c), d[3] % pow, d[4] - 1 >>

RECURSIVE DivDigits(_, _)
\* long division, the most significant digit first
DivDigits(d, c) ==
  IF d[4] = 0 THEN d[2]
  ELSE DivDigits(DivStep(d, c, d[1] * 10 + (d[3] \div (10 ^ (d[4] - 1))),
                         10 ^ (d[4] - 1)), c)

\* floor(p / c) for a two-limb p and 0 < c <= 214748364
DivBig(p, c) == DivDigits(<< p[1] % c, p[1] \div c, p[2], 8 >>, c)

\* a * b / c rounded to the nearest integer, signed
MulDiv(a, b, c) ==
  IF a = 0 \/ b = 0 THEN 0
  ELSE LET s == Sgn(a) * Sgn(b) * Sgn(c)
           ac == Abs(c)
       IN  s * DivBig(Add2(Mul2(Abs(a), Abs(b)), << 0, ac \div 2 >>), ac)

\* the half of the range b = << lo, hi >> that holds the largest r with
\* r * r <= p, for the middle mid of the range
SqrtHalf(p, b, mid) ==
  IF Leq2(Mul2(mid, mid), p) THEN << mid, b[2] >> ELSE << b[1], mid - 1 >>

\* one bisection of the range b, which a range of one number survives
SqrtStep(p, b) ==
  IF b[1] >= b[2] THEN b ELSE SqrtHalf(p, b, (b[1] + b[2] + 1) \div 2)

RECURSIVE SqrtSearch(_, _)
\* the largest r in the range b = << lo, hi >> with r * r <= p, three
\* bisections at a time
SqrtSearch(p, b) ==
  IF b[1] >= b[2] THEN b[1]
  ELSE SqrtSearch(p, SqrtStep(p, SqrtStep(p, SqrtStep(p, b))))

\* the floor r of a square root rounded to the nearest integer
SqrtRound(p, r) ==
  IF Leq2(Add2(Mul2(r, r), << 0, r + 1 >>), p) THEN r + 1 ELSE r

\* Math.sqrt of a two-limb number, rounded to the nearest integer
SqrtBig(p) == SqrtRound(p, SqrtSearch(p, << 0, 460000000 >>))

\* Math.sqrt(x*x + y*y + z*z), in the unit of x, y and z
Norm3(x, y, z) ==
  IF x = 0 /\ y = 0 /\ z = 0 THEN 0
  ELSE SqrtBig(Add2(Add2(Mul2(Abs(x), Abs(x)), Mul2(Abs(y), Abs(y))),
                    Mul2(Abs(z), Abs(z))))

\* ------------------------------------------------------------------------
\* Math.cos, Math.sin and Math.atan2, by CORDIC on integers
\* ------------------------------------------------------------------------

\* Math.atan(2^-i) for i = 0..29, in units of 1e-9 half turns
AtanTable ==
  << 250000000, 147583618, 77979130, 39583424, 19868524, 9943948, 4973187,
     2486745, 1243392, 621698, 310849, 155425, 77712, 38856, 19428, 9714,
     4857, 2429, 1214, 607, 304, 152, 76, 38, 19, 9, 5, 2, 1, 1 >>

\* the inverse of the CORDIC gain, in units of 1e-9
CordicK == 607252935

\* the angle unit of AtanTable in units of One: 1e-9 / 1e-7
AngleFine == 100

\* A CORDIC state is v = << x, y, z, i >>: the vector, the angle and the
\* table entry of the next step.

\* (x, y) turned by the table entry i, anticlockwise for s = 1 and clockwise
\* for s = -1, and z less the angle turned
CordicTurn(v, s, sh) ==
  << v[1] - s * (v[2] \div sh), v[2] + s * (v[1] \div sh),
     v[3] - s * AtanTable[v[4]], v[4] + 1 >>

\* one step of the rotation mode: turns (x, y) towards z = 0
RotateStep(v) == CordicTurn(v, IF v[3] >= 0 THEN 1 ELSE -1, 2 ^ (v[4] - 1))

\* one step of the vectoring mode: turns (x, y) towards y = 0
VectorStep(v) == CordicTurn(v, IF v[2] > 0 THEN -1 ELSE 1, 2 ^ (v[4] - 1))

RECURSIVE CordicRotate(_)
\* rotation mode: turns (x, y) by the angle z, three of the Len(AtanTable)
\* steps at a time
CordicRotate(v) ==
  IF v[4] > Len(AtanTable) THEN << v[1], v[2] >>
  ELSE CordicRotate(RotateStep(RotateStep(RotateStep(v))))

RECURSIVE CordicVector(_)
\* vectoring mode: turns (x, y), x > 0, onto the x axis; z sums the angle
CordicVector(v) ==
  IF v[4] > Len(AtanTable) THEN v[3]
  ELSE CordicVector(VectorStep(VectorStep(VectorStep(v))))

\* a CORDIC result, in units of 1e-9, rounded to units of 1e-8
RoundTrig(r) == << (r[1] + 5) \div 10, (r[2] + 5) \div 10 >>

\* << Math.cos, Math.sin >> of an angle of -One/2 .. One/2 half turns
CosSinQuarter(a) ==
  IF a = 0 THEN << TrigOne, 0 >>
  ELSE IF a = One \div 2 THEN << 0, TrigOne >>
  ELSE IF a = -(One \div 2) THEN << 0, -TrigOne >>
  ELSE RoundTrig(CordicRotate(<< CordicK, 0, a * AngleFine, 1 >>))

\* << cos, sin >> half a turn on
Negated(r) == << -r[1], -r[2] >>

\* the angle a brought into -One/2 .. One/2 by whole and half turns, and
\* whether a half turn was taken off
Reduced(a) ==
  LET m == a % (2 * One)
  IN  IF m <= One \div 2 THEN << m, FALSE >>
      ELSE IF m <= One + (One \div 2) THEN << m - One, TRUE >>
      ELSE << m - 2 * One, FALSE >>

\* << cos, sin >> of the angle whose reduction q has the << cos, sin >> r
CosSinReduced(q, r) == IF q[2] THEN Negated(r) ELSE r

\* << Math.cos(a * pi), Math.sin(a * pi) >> for the rotation field a
CosSin(a) == CosSinReduced(Reduced(a), CosSinQuarter(Reduced(a)[1]))

\* a CORDIC angle rounded to units of One
RoundAngle(z) ==
  IF z >= 0 THEN (z + AngleFine \div 2) \div AngleFine
  ELSE -((-z + AngleFine \div 2) \div AngleFine)

\* Math.atan2(y, x) for x > 0, in half turns
AtanRight(y, x) ==
  LET f == Max2(1, 500000000 \div Max2(Abs(x), Abs(y)))
  IN  RoundAngle(CordicVector(<< x * f, y * f, 0, 1 >>))

\* Math.atan2(y, x) / Math.PI
Atan2OverPi(y, x) ==
  IF y = 0 THEN (IF x >= 0 THEN 0 ELSE One)
  ELSE IF x = 0 THEN (IF y > 0 THEN One \div 2 ELSE -(One \div 2))
  ELSE IF x > 0 THEN AtanRight(y, x)
  ELSE IF y > 0 THEN One + AtanRight(-y, -x)
  ELSE AtanRight(-y, -x) - One

\* Math.atan2(Math.sqrt(a*a + b*b), x) / Math.PI.  The vector is scaled up
\* first, which leaves the angle as it is: a floating-point square root
\* keeps its relative precision on small numbers, a fixed-point one does not
Atan2Hypot(a, b, x) ==
  LET f == Max2(1, 250000000 \div Max2(1, Max2(Abs(a), Max2(Abs(b), Abs(x)))))
  IN  Atan2OverPi(Norm3(a * f, 0, b * f), x * f)

\* ------------------------------------------------------------------------
\* NaN-propagating arithmetic on Numbers
\* ------------------------------------------------------------------------

AnyNaN(v) == \E i \in 1..Len(v) : IsNaN(v[i])

NAdd(a, b) == IF IsNaN(a) \/ IsNaN(b) THEN NaN ELSE a + b

NSub(a, b) == IF IsNaN(a) \/ IsNaN(b) THEN NaN ELSE a - b

\* a / 2
NHalf(a) == IF IsNaN(a) THEN NaN ELSE MulDiv(a, 1, 2)

\* a < b as JavaScript decides it: false when either side is NaN
NLess(a, b) == ~IsNaN(a) /\ ~IsNaN(b) /\ a < b

\* the product of two direction cosines
MulT(a, b) == MulDiv(a, b, TrigOne)

\* the product of two Numbers
MulN(a, b) == MulDiv(a, b, One)

Vec3Sub(a, b) == << a[1] - b[1], a[2] - b[2], a[3] - b[3] >>

\* ------------------------------------------------------------------------
\* OrientationMath
\* ------------------------------------------------------------------------

\* v = [0, 1, 0] turned about X, for << cos, sin >> of the X angle
AboutX(r) == << 0, r[1], r[2] >>

\* v turned about Y
AboutY(v, r) ==
  << MulT(v[1], r[1]) + MulT(v[3], r[2]), v[2],
     MulT(v[3], r[1]) - MulT(v[1], r[2]) >>

\* v turned about Z
AboutZ(v, r) ==
  << MulT(v[1], r[1]) - MulT(v[2], r[2]),
     MulT(v[1], r[2]) + MulT(v[2], r[1]), v[3] >>

\* v divided by len
Scaled(v, len) ==
  << MulDiv(v[1], TrigOne, len), MulDiv(v[2], TrigOne, len),
     MulDiv(v[3], TrigOne, len) >>

\* v divided by its length
Normalized(v) == Scaled(v, Norm3(v[1], v[2], v[3]))

\* eulerToDirection(rotation.map(v => v * Math.PI)): the unit vector of the
\* cylinder axis, TrigOne-scaled, for the rotation field rot
eulerToDirection(rot) ==
  IF AnyNaN(rot) THEN << NaN, NaN, NaN >>
  ELSE Normalized(
         AboutZ(AboutY(AboutX(CosSin(rot[1])), CosSin(rot[2])), CosSin(rot[3])))

\* center - 0.5 * height * dir, one coordinate
AxisStart(c, h, d) == c - MulDiv(h, d, 2 * TrigOne)

\* center + 0.5 * height * dir, one coordinate
AxisEnd(c, h, d) == c + MulDiv(h, d, 2 * TrigOne)

\* ------------------------------------------------------------------------
\* CollisionEngine
\* ------------------------------------------------------------------------

\* the margin epsilon of checkSphereCollision: 0.01
Epsilon == 100000

\* the parallel threshold of checkCylinderCollision: 0.001
ParallelThreshold == 10000

CylHasNaN(cyl) ==
  \/ IsNaN(cyl.radiusTop) \/ IsNaN(cyl.height)
  \/ AnyNaN(cyl.rotation) \/ AnyNaN(cyl.position)

SphHasNaN(sph) == IsNaN(sph.radius) \/ AnyNaN(sph.position)

\* the axis segment of a cylinder at p of height h along dir
AxisAlong(p, h, dir) ==
  [ dir   |-> dir,
    start |-> [i \in 1..3 |-> AxisStart(p[i], h, dir[i])],
    end   |-> [i \in 1..3 |-> AxisEnd(p[i], h, dir[i])] ]

\* the axis segment of a cylinder: start, end, dir (TrigOne-scaled)
AxisOf(cyl) == AxisAlong(cyl.position, cyl.height, eulerToDirection(cyl.rotation))

\* the length of a vector
Length(v) == Norm3(v[1], v[2], v[3])

\* checkSphereCollision without the margin epsilon
checkSphereCollisionNoMargin(sph1, sph2) ==
  IF SphHasNaN(sph1) \/ SphHasNaN(sph2) THEN FALSE
  ELSE Length(Vec3Sub(sph2.position, sph1.position))
         < sph1.radius + sph2.radius

\* the sphere test that takes both radii from its first argument
checkSphereCollisionFirstRadius(sph1, sph2) ==
  IF SphHasNaN(sph1) \/ SphHasNaN(sph2) THEN FALSE
  ELSE Length(Vec3Sub(sph2.position, sph1.position))
         < sph1.radius + sph1.radius - Epsilon

checkSphereCollision(sph1, sph2) ==
  IF SphHasNaN(sph1) \/ SphHasNaN(sph2) THEN FALSE
  ELSE Length(Vec3Sub(sph2.position, sph1.position))
         < sph1.radius + sph2.radius - Epsilon

\* The pairwise tests are written in stages: each const of the source is
\* computed once and handed on as an argument of the next stage.

\* a . b for a Number vector a and a TrigOne-scaled b
DotT(a, b) == MulT(a[1], b[1]) + MulT(a[2], b[2]) + MulT(a[3], b[3])

\* cross: the cross product of axis1 and axis2
CrossVectors(axis1, axis2) ==
  << MulN(axis1[2], axis2[3]) - MulN(axis1[3], axis2[2]),
     MulN(axis1[3], axis2[1]) - MulN(axis1[1], axis2[3]),
     MulN(axis1[1], axis2[2]) - MulN(axis1[2], axis2[1]) >>

\* |vec.dot(cross)| / crossMag, divided term by term
AxisDistance(vec, cross, crossMag) ==
  Abs(MulDiv(vec[1], cross[1], crossMag) + MulDiv(vec[2], cross[2], crossMag)
      + MulDiv(vec[3], cross[3], crossMag))

\* the offset of the center of cyl2 from the axis of cyl1, at right angles
\* to the direction dir of that axis
OffsetAcross(cyl1, cyl2, dir) ==
  Length([i \in 1..3 |->
            (cyl2.position[i] - cyl1.position[i])
              - MulT(DotT(Vec3Sub(cyl2.position, cyl1.position), dir), dir[i])])

\* CylinderTest with a parallel fallback that ignores the offset along the
\* axis: it compares the offset across the axis with the radii
CylinderTestAcross(cyl1, cyl2, a1, a2, cross, crossMag) ==
  IF crossMag < ParallelThreshold
  THEN OffsetAcross(cyl1, cyl2, a1.dir) < cyl1.radiusTop + cyl2.radiusTop
  ELSE AxisDistance(Vec3Sub(a2.start, a1.start), cross, crossMag)
         < cyl1.radiusTop + cyl2.radiusTop

\* the test of checkCylinderCollision once cross and its length are known
CylinderTest(cyl1, cyl2, a1, a2, cross, crossMag) ==
  IF crossMag < ParallelThreshold
  THEN Length(Vec3Sub(cyl2.position, cyl1.position))
         < cyl1.radiusTop + cyl2.radiusTop
  ELSE AxisDistance(Vec3Sub(a2.start, a1.start), cross, crossMag)
         < cyl1.radiusTop + cyl2.radiusTop

\* checkCylinderCollision from crossMag on
CylinderCross(cyl1, cyl2, a1, a2, cross) ==
  CylinderTest(cyl1, cyl2, a1, a2, cross, Length(cross))

\* checkCylinderCollision from axis1, axis2 and cross on
CylinderAxes(cyl1, cyl2, a1, a2) ==
  CylinderCross(cyl1, cyl2, a1, a2,
    CrossVectors(Vec3Sub(a1.end, a1.start), Vec3Sub(a2.end, a2.start)))

checkCylinderCollision(cyl1, cyl2) ==
  IF CylHasNaN(cyl1) \/ CylHasNaN(cyl2) THEN FALSE
  ELSE CylinderAxes(cyl1, cyl2, AxisOf(cyl1), AxisOf(cyl2))

\* the sphere is beside a cap: radialDist is its distance from the axis line
CapEdgeTest(cylRadius, sphRadius, distAlongAxis, radialDist) ==
  IF radialDist <= cylRadius
  THEN Abs(distAlongAxis) < sphRadius
  ELSE Norm3(radialDist - cylRadius, distAlongAxis, 0) < sphRadius

\* sphere.position projected onto the plane of the cap, less the cap center
CapRadial(s, capCenter, axisNorm, distAlongAxis) ==
  Length(Vec3Sub([i \in 1..3 |-> s[i] - MulT(distAlongAxis, axisNorm[i])],
                 capCenter))

\* the cap branch from proj and radialDist on
CapAlong(cylRadius, sphRadius, s, capCenter, axisNorm, distAlongAxis) ==
  CapEdgeTest(cylRadius, sphRadius, distAlongAxis,
              CapRadial(s, capCenter, axisNorm, distAlongAxis))

\* the cap branch: tClamped === 0 || tClamped === 1
CapTest(cylRadius, sphRadius, s, capCenter, axisNorm) ==
  CapAlong(cylRadius, sphRadius, s, capCenter, axisNorm,
           DotT(Vec3Sub(s, capCenter), axisNorm))

\* the sphere is beside the side of the cylinder
SideTest(cylRadius, sphRadius, s, start, axisNorm, along) ==
  Length(Vec3Sub(s, [i \in 1..3 |-> start[i] + MulT(along, axisNorm[i])]))
    < cylRadius + sphRadius

\* SphereAlong without the caps: the side test for every sphere
SphereAlongSide(cyl, sph, a, axisNorm, axisLength, along) ==
  SideTest(cyl.radiusTop, sph.radius, sph.position, a.start, axisNorm, along)

\* along = t * axisLength = vec.dot(axis) / axisLength
SphereAlong(cyl, sph, a, axisNorm, axisLength, along) ==
  IF along <= 0
  THEN CapTest(cyl.radiusTop, sph.radius, sph.position, a.start, axisNorm)
  ELSE IF along >= axisLength
  THEN CapTest(cyl.radiusTop, sph.radius, sph.position, a.end, axisNorm)
  ELSE SideTest(cyl.radiusTop, sph.radius, sph.position, a.start, axisNorm, along)

\* checkCylinderSphereCollision from vec and t on
SphereAxisNorm(cyl, sph, a, axisNorm, axisLength) ==
  SphereAlong(cyl, sph, a, axisNorm, axisLength,
              DotT(Vec3Sub(sph.position, a.start), axisNorm))

\* a zero axis makes t = 0/0 = NaN: every comparison with it is false
SphereAxisLength(cyl, sph, a, axis, axisLength) ==
  IF axisLength = 0 THEN FALSE
  ELSE SphereAxisNorm(cyl, sph, a, Scaled(axis, axisLength), axisLength)

\* checkCylinderSphereCollision from axisLength on
SphereAxisVector(cyl, sph, a, axis) ==
  SphereAxisLength(cyl, sph, a, axis, Length(axis))

\* checkCylinderSphereCollision from axis on
SphereAxis(cyl, sph, a) ==
  SphereAxisVector(cyl, sph, a, Vec3Sub(a.end, a.start))

checkCylinderSphereCollision(cyl, sph) ==
  IF CylHasNaN(cyl) \/ SphHasNaN(sph) THEN FALSE
  ELSE SphereAxis(cyl, sph, AxisOf(cyl))

\* the pairs << i, j >>, i < j, of 1..n in the order of the nested loops
RECURSIVE PairsFrom(_, _, _)
PairsFrom(i, j, n) ==
  IF i > n THEN << >>
  ELSE IF j > n THEN PairsFrom(i + 1, i + 2, n)
  ELSE << << i, j >> >> \o PairsFrom(i, j + 1, n)

\* the pairs << i, j >> of 1..n x 1..m in the order of the nested loops
RECURSIVE GridFrom(_, _, _, _)
GridFrom(i, j, n, m) ==
  IF i > n THEN << >>
  ELSE IF j > m THEN GridFrom(i + 1, 1, n, m)
  ELSE << << i, j >> >> \o GridFrom(i, j + 1, n, m)

\* the ids of the pairs of indices: collisions.push([id1, id2])
IdPairs(objs1, objs2, pairs) ==
  [k \in 1..Len(pairs) |-> << objs1[pairs[k][1]].id, objs2[pairs[k][2]].id >>]

\* the scan whose inner sphere loop starts at 0 instead of i + 1
detectCollisionsFromZero(cyls, sphs) ==
  IdPairs(cyls, cyls,
    SelectSeq(PairsFrom(1, 2, Len(cyls)),
              LAMBDA p : checkCylinderCollision(cyls[p[1]], cyls[p[2]])))
  \o IdPairs(sphs, sphs,
    SelectSeq(GridFrom(1, 1, Len(sphs), Len(sphs)),
              LAMBDA p : checkSphereCollision(sphs[p[1]], sphs[p[2]])))
  \o IdPairs(cyls, sphs,
    SelectSeq(GridFrom(1, 1, Len(cyls), Len(sphs)),
              LAMBDA p : checkCylinderSphereCollision(cyls[p[1]], sphs[p[2]])))

\* detectCollisions: the colliding id pairs, in the order they are pushed
detectCollisions(cyls, sphs) ==
  IdPairs(cyls, cyls,
    SelectSeq(PairsFrom(1, 2, Len(cyls)),
              LAMBDA p : checkCylinderCollision(cyls[p[1]], cyls[p[2]])))
  \o IdPairs(sphs, sphs,
    SelectSeq(PairsFrom(1, 2, Len(sphs)),
              LAMBDA p : checkSphereCollision(sphs[p[1]], sphs[p[2]])))
  \o IdPairs(cyls, sphs,
    SelectSeq(GridFrom(1, 1, Len(cyls), Len(sphs)),
              LAMBDA p : checkCylinderSphereCollision(cyls[p[1]], sphs[p[2]])))

\* ------------------------------------------------------------------------
\* Text: a sequence of lines, a line a sequence of items.  An item is a
\* piece of text without white space (a word, a run of digits, a decimal
\* number) or a piece of white space (a blank, a carriage return).
\* ------------------------------------------------------------------------

\* a word: text that is no number ("rcc", "end", "NaN", "zn3": s = "zn", ip = 3)
Word(s, n) == [k |-> "w", s |-> s, neg |-> FALSE, ip |-> n, fp |-> 0]

\* a run of digits: the decimal numeral of n
Digits(n) == [k |-> "i", s |-> "", neg |-> FALSE, ip |-> n, fp |-> 0]

\* a decimal number with six decimals: [-]ip.fp
Decimal(neg, ip, fp) == [k |-> "d", s |-> "", neg |-> neg, ip |-> ip, fp |-> fp]

\* a token of digits followed by other characters, such as 2cm
Trailed(n, s) == [k |-> "t", s |-> s, neg |-> FALSE, ip |-> n, fp |-> 0]

Blank == Word(" ", 0)

CarriageReturn == Word("\r", 0)

IsSpace(t) == t.k = "w" /\ t.s \in {" ", "\r"}

\* the tokens t1 .. tn joined by single blanks
RECURSIVE Joined(_)
Joined(toks) ==
  IF Len(toks) <= 1 THEN toks
  ELSE << toks[1], Blank >> \o Joined(Tail(toks))

\* String.prototype.trim
RECURSIVE TrimLeft(_)
TrimLeft(line) ==
  IF line # << >> /\ IsSpace(line[1]) THEN TrimLeft(Tail(line)) ELSE line

RECURSIVE TrimRight(_)
TrimRight(line) ==
  IF line # << >> /\ IsSpace(line[Len(line)])
  THEN TrimRight(SubSeq(line, 1, Len(line) - 1))
  ELSE line

Trim(line) == TrimRight(TrimLeft(line))

\* line.split(/\s+/) of a trimmed line: the empty line gives one empty part
SplitSpaces(line) ==
  IF line = << >> THEN << Word("", 0) >>
  ELSE SelectSeq(line, LAMBDA t : ~IsSpace(t))

\* line.startsWith(prefix), by the first item of the trimmed line
StartsWith(line, prefix) ==
  /\ line # << >>
  /\ line[1].k = "w"
  /\ \/ line[1].s = prefix
     \/ prefix = "rcc" /\ line[1].s = "rccx"
     \/ prefix = "sph" /\ line[1].s = "sphere"

\* line.match(/^\d+(\s+\d+)*$/) of a trimmed line
IsDigitsLine(line) ==
  /\ line # << >>
  /\ \A i \in 1..Len(line) : IsSpace(line[i]) \/ line[i].k = "i"

\* parseFloat of a part
\* parseFloat giving NaN for a number followed by other characters
parseFloatWhole(t) ==
  IF t.k = "i" THEN t.ip * One
  ELSE IF t.k = "d"
  THEN (IF t.neg THEN -1 ELSE 1) * (t.ip * Micro + t.fp) * (One \div Micro)
  ELSE NaN

\* parseFloat reads the longest numeric prefix of the token
parseFloat(t) ==
  IF t.k = "i" \/ t.k = "t" THEN t.ip * One
  ELSE IF t.k = "d"
  THEN (IF t.neg THEN -1 ELSE 1) * (t.ip * Micro + t.fp) * (One \div Micro)
  ELSE NaN

\* Number.prototype.toFixed(6): the nearest multiple of 1e-6, a tie away
\* from zero; a negative number keeps its sign when it rounds to zero
toFixed6(v) ==
  IF IsNaN(v) THEN Word("NaN", 0)
  ELSE LET m == (Abs(v) + (One \div Micro) \div 2) \div (One \div Micro)
       IN  Decimal(v < 0, m \div Micro, m % Micro)

\* ------------------------------------------------------------------------
\* PrimitiveModel: the scene
\* ------------------------------------------------------------------------
\* cylinderParams and sphereParams are JavaScript objects keyed by id, whose
\* keys enumerate in insertion order: each is modelled as the sequence of its
\* entries, an entry carrying its key in the field id.

CylinderId(n) == << "cylinder", n >>

SphereId(n) == << "sphere", n >>

Cylinder(id, radius, height, rotation, position, materialType) ==
  [ id |-> id, radiusTop |-> radius, radiusBottom |-> radius,
    height |-> height, rotation |-> rotation, position |-> position,
    materialType |-> materialType ]

Sphere(id, radius, position, materialType) ==
  [ id |-> id, radius |-> radius, position |-> position,
    materialType |-> materialType ]

\* Object.keys(obj)
Keys(obj) == [i \in 1..Len(obj) |-> obj[i].id]

\* obj[id] is defined
Has(obj, id) == \E i \in 1..Len(obj) : obj[i].id = id

IndexOf(obj, id) == CHOOSE i \in 1..Len(obj) : obj[i].id = id

\* the object { ...obj, [entry.id]: entry }: an existing key keeps its place
Put(obj, entry) ==
  IF Has(obj, entry.id)
  THEN [obj EXCEPT ![IndexOf(obj, entry.id)] = entry]
  ELSE Append(obj, entry)

Materials == { "concrete", "steel", "wood", "standard" }

\* materialMap with the codes of steel and wood exchanged
materialMapSwapped(materialType) ==
  CASE materialType = "concrete" -> 1
    [] materialType = "steel"    -> 3
    [] materialType = "wood"     -> 2
    [] materialType = "standard" -> 4
    [] OTHER                     -> 1

\* materialMap[materialType] || 1
materialMap(materialType) ==
  CASE materialType = "concrete" -> 1
    [] materialType = "steel"    -> 2
    [] materialType = "wood"     -> 3
    [] materialType = "standard" -> 4
    [] OTHER                     -> 1

\* materialMapReverse[matNum] || 'concrete'
materialMapReverse(matNum) ==
  CASE matNum = 1 -> "concrete"
    [] matNum = 2 -> "steel"
    [] matNum = 3 -> "wood"
    [] matNum = 4 -> "standard"
    [] OTHER      -> "concrete"

\* ------------------------------------------------------------------------
\* SceneCodec: export
\* ------------------------------------------------------------------------

\* bottomX, bottomY, bottomZ: position - (height / 2) * dir, by coordinate
RccBottom(params, d, i) ==
  IF IsNaN(params.height) \/ IsNaN(d[i]) THEN NaN
  ELSE NSub(params.position[i], MulDiv(params.height, d[i], 2 * TrigOne))

\* dirX, dirY, dirZ: dir * height, by coordinate
RccDir(params, d, i) ==
  IF IsNaN(params.height) \/ IsNaN(d[i]) THEN NaN
  ELSE MulDiv(d[i], params.height, TrigOne)

\* the rcc line of a cylinder whose axis has the direction d
RccLineAlong(index, params, d) ==
  Joined(<< Word("rcc", 0), Digits(index),
            toFixed6(RccBottom(params, d, 1)), toFixed6(RccBottom(params, d, 2)),
            toFixed6(RccBottom(params, d, 3)),
            toFixed6(RccDir(params, d, 1)), toFixed6(RccDir(params, d, 2)),
            toFixed6(RccDir(params, d, 3)),
            toFixed6(params.radiusTop) >>)

\* the rcc line of one cylinder, written with the running index
RccLine(index, params) ==
  RccLineAlong(index, params, eulerToDirection(params.rotation))

\* the sph line of one sphere
SphLine(index, params) ==
  Joined(<< Word("sph", 0), Digits(index),
            toFixed6(params.position[1]), toFixed6(params.position[2]),
            toFixed6(params.position[3]), toFixed6(params.radius) >>)

\* the zone line with its last two fields exchanged
ZoneLineSwapped(index) == Joined(<< Word("zn", index), Digits(index), Digits(1) >>)

\* `zn${index} 1 ${index}`
ZoneLine(index) == Joined(<< Word("zn", index), Digits(1), Digits(index) >>)

\* the material line: `${materialInt} ` once per primitive
RECURSIVE MaterialLine(_)
MaterialLine(entries) ==
  IF entries = << >> THEN << >>
  ELSE << Digits(materialMap(entries[1].materialType)), Blank >>
       \o MaterialLine(Tail(entries))

\* ExportLines closing the file with the number of primitives instead of
\* the footer
ExportLinesCounted(cyls, sphs) ==
  LET nc == Len(cyls)
      ns == Len(sphs)
  IN  [i \in 1..nc |-> RccLine(i, cyls[i])]
      \o [j \in 1..ns |-> SphLine(nc + j, sphs[j])]
      \o << Joined(<< Word("end", 0), Word("body", 0) >>) >>
      \o [i \in 1..(nc + ns) |-> ZoneLine(i)]
      \o << Joined(<< Word("end", 0), Word("zone", 0) >>) >>
      \o << MaterialLine(cyls \o sphs) >>
      \o << << Digits(nc + ns) >> >>
      \o << << >> >>

\* exportString.split('\n'): the lines handleExport writes
ExportLines(cyls, sphs) ==
  LET nc == Len(cyls)
      ns == Len(sphs)
  IN  [i \in 1..nc |-> RccLine(i, cyls[i])]
      \o [j \in 1..ns |-> SphLine(nc + j, sphs[j])]
      \o << Joined(<< Word("end", 0), Word("body", 0) >>) >>
      \o [i \in 1..(nc + ns) |-> ZoneLine(i)]
      \o << Joined(<< Word("end", 0), Word("zone", 0) >>) >>
      \o << MaterialLine(cyls \o sphs) >>
      \o << Joined(<< Word("oesnt", 0), Word("worend", 0), Word("geom", 0) >>) >>
      \o << << >> >>

\* ------------------------------------------------------------------------
\* SceneCodec: import
\* ------------------------------------------------------------------------

\* the state of the parsing loop of reader.onload before its first line
ParseStart ==
  [ newCylinderParams |-> << >>, newSphereParams |-> << >>,
    cylIndex |-> 1, sphIndex |-> 1, objectOrder |-> << >>,
    materialList |-> << >>, parsingMaterials |-> FALSE ]

\* CylinderOfParts with the arguments of the atan2 of rotY exchanged
CylinderOfPartsSwapped(id, parts) ==
  LET pos == << parseFloat(parts[3]), parseFloat(parts[4]), parseFloat(parts[5]) >>
      dir == << parseFloat(parts[6]), parseFloat(parts[7]), parseFloat(parts[8]) >>
      radius == parseFloat(parts[9])
      height == IF AnyNaN(dir) THEN NaN ELSE Norm3(dir[1], dir[2], dir[3])
      center == [i \in 1..3 |-> NAdd(pos[i], NHalf(dir[i]))]
      rotY == IF IsNaN(dir[1]) \/ IsNaN(dir[3]) THEN NaN
              ELSE Atan2OverPi(dir[3], dir[1])
      rotX == IF AnyNaN(dir) THEN NaN
              ELSE Atan2Hypot(dir[1], dir[3], dir[2])
  IN  Cylinder(id, radius, height, << rotX, rotY, 0 >>, center, "concrete")

\* the cylinder an rcc line of at least 9 parts gives
CylinderOfParts(id, parts) ==
  LET pos == << parseFloat(parts[3]), parseFloat(parts[4]), parseFloat(parts[5]) >>
      dir == << parseFloat(parts[6]), parseFloat(parts[7]), parseFloat(parts[8]) >>
      radius == parseFloat(parts[9])
      height == IF AnyNaN(dir) THEN NaN ELSE Norm3(dir[1], dir[2], dir[3])
      center == [i \in 1..3 |-> NAdd(pos[i], NHalf(dir[i]))]
      rotY == IF IsNaN(dir[1]) \/ IsNaN(dir[3]) THEN NaN
              ELSE Atan2OverPi(dir[1], dir[3])
      rotX == IF AnyNaN(dir) THEN NaN
              ELSE Atan2Hypot(dir[1], dir[3], dir[2])
  IN  Cylinder(id, radius, height, << rotX, rotY, 0 >>, center, "concrete")

\* SphereOfParts reading the radius before the center
SphereOfPartsRadiusFirst(id, parts) ==
  Sphere(id, parseFloat(parts[3]),
         << parseFloat(parts[4]), parseFloat(parts[5]), parseFloat(parts[6]) >>,
         "concrete")

\* the sphere an sph line of at least 6 parts gives
SphereOfParts(id, parts) ==
  Sphere(id, parseFloat(parts[6]),
         << parseFloat(parts[3]), parseFloat(parts[4]), parseFloat(parts[5]) >>,
         "concrete")

\* ParseLine taking a numeric line as the material list only when it has as
\* many tokens as there are objects at the time the line is read
ParseLineCounting(st, rawLine) ==
  LET line  == Trim(rawLine)
      parts == SplitSpaces(line)
  IN  IF StartsWith(line, "rcc")
      THEN IF Len(parts) >= 9
           THEN LET id == CylinderId(st.cylIndex)
                IN  [st EXCEPT
                      !.newCylinderParams = Put(@, CylinderOfParts(id, parts)),
                      !.objectOrder = Append(@, [type |-> "cylinder", id |-> id]),
                      !.cylIndex = @ + 1]
           ELSE st
      ELSE IF StartsWith(line, "sph")
      THEN IF Len(parts) >= 6
           THEN LET id == SphereId(st.sphIndex)
                IN  [st EXCEPT
                      !.newSphereParams = Put(@, SphereOfParts(id, parts)),
                      !.objectOrder = Append(@, [type |-> "sphere", id |-> id]),
                      !.sphIndex = @ + 1]
           ELSE st
      ELSE IF IsDigitsLine(line) /\ Len(parts) = Len(st.objectOrder)
      THEN [st EXCEPT !.parsingMaterials = TRUE,
                      !.materialList = [i \in 1..Len(parts) |-> parts[i].ip]]
      ELSE st

\* ParseLine keeping the first numeric line of the text as the material list
ParseLineKeepingFirst(st, rawLine) ==
  LET line  == Trim(rawLine)
      parts == SplitSpaces(line)
  IN  IF StartsWith(line, "rcc")
      THEN IF Len(parts) >= 9
           THEN LET id == CylinderId(st.cylIndex)
                IN  [st EXCEPT
                      !.newCylinderParams = Put(@, CylinderOfParts(id, parts)),
                      !.objectOrder = Append(@, [type |-> "cylinder", id |-> id]),
                      !.cylIndex = @ + 1]
           ELSE st
      ELSE IF StartsWith(line, "sph")
      THEN IF Len(parts) >= 6
           THEN LET id == SphereId(st.sphIndex)
                IN  [st EXCEPT
                      !.newSphereParams = Put(@, SphereOfParts(id, parts)),
                      !.objectOrder = Append(@, [type |-> "sphere", id |-> id]),
                      !.sphIndex = @ + 1]
           ELSE st
      ELSE IF IsDigitsLine(line) /\ ~st.parsingMaterials
      THEN [st EXCEPT !.parsingMaterials = TRUE,
                      !.materialList = [i \in 1..Len(parts) |-> parts[i].ip]]
      ELSE st

\* one turn of the loop `for (let line of lines)`
ParseLine(st, rawLine) ==
  LET line  == Trim(rawLine)
      parts == SplitSpaces(line)
  IN  IF StartsWith(line, "rcc")
      THEN IF Len(parts) >= 9
           THEN LET id == CylinderId(st.cylIndex)
                IN  [st EXCEPT
                      !.newCylinderParams = Put(@, CylinderOfParts(id, parts)),
                      !.objectOrder = Append(@, [type |-> "cylinder", id |-> id]),
                      !.cylIndex = @ + 1]
           ELSE st
      ELSE IF StartsWith(line, "sph")
      THEN IF Len(parts) >= 6
           THEN LET id == SphereId(st.sphIndex)
                IN  [st EXCEPT
                      !.newSphereParams = Put(@, SphereOfParts(id, parts)),
                      !.objectOrder = Append(@, [type |-> "sphere", id |-> id]),
                      !.sphIndex = @ + 1]
           ELSE st
      ELSE IF IsDigitsLine(line)
      THEN [st EXCEPT !.parsingMaterials = TRUE,
                      !.materialList = [i \in 1..Len(parts) |-> parts[i].ip]]
      ELSE st

RECURSIVE ParseLines(_)
\* the loop `for (let line of lines)`, at = << st, the lines still to read >>
ParseLines(at) ==
  IF at[2] = << >> THEN at[1]
  ELSE ParseLines(<< ParseLine(at[1], Head(at[2])), Tail(at[2]) >>)

\* obj[id].materialType = matType
SetMaterial(obj, id, matType) ==
  [i \in 1..Len(obj) |->
     IF obj[i].id = id THEN [obj[i] EXCEPT !.materialType = matType] ELSE obj[i]]

RECURSIVE AssignMaterials(_, _)
\* materialList.forEach((matNum, idx) => ...), from index idx on
AssignMaterials(st, idx) ==
  IF idx > Len(st.materialList) THEN st
  ELSE LET obj == st.objectOrder[idx]
           matType == materialMapReverse(st.materialList[idx])
       IN  AssignMaterials(
             IF obj.type = "cylinder"
             THEN [st EXCEPT !.newCylinderParams = SetMaterial(@, obj.id, matType)]
             ELSE IF obj.type = "sphere"
             THEN [st EXCEPT !.newSphereParams = SetMaterial(@, obj.id, matType)]
             ELSE st,
             idx + 1)

\* MaterialsApplied without the test of the lengths: the codes go to as many
\* objects as there are codes and objects
MaterialsAppliedToSome(st) ==
  AssignMaterials(
    [st EXCEPT !.materialList =
       SubSeq(@, 1, Min2(Len(st.materialList), Len(st.objectOrder)))], 1)

\* MaterialsApplied with the codes going to the cylinders first and to the
\* spheres after them, instead of in the order of the file
MaterialsAppliedByKind(st) ==
  IF Len(st.materialList) > 0 /\ Len(st.objectOrder) = Len(st.materialList)
  THEN AssignMaterials(
         [st EXCEPT !.objectOrder =
            SelectSeq(@, LAMBDA o : o.type = "cylinder")
            \o SelectSeq(@, LAMBDA o : o.type = "sphere")], 1)
  ELSE st

\* the materials are applied when there is a list of as many codes as objects
MaterialsApplied(st) ==
  IF Len(st.materialList) > 0 /\ Len(st.objectOrder) = Len(st.materialList)
  THEN AssignMaterials(st, 1)
  ELSE st

\* what reader.onload has built when it reaches the test of line 1289
ParseText(lines) == MaterialsApplied(ParseLines(<< ParseStart, lines >>))

\* ------------------------------------------------------------------------
\* The state of App
\* ------------------------------------------------------------------------

VARIABLES
  cylinderParams,      \* useState: the cylinders, in insertion order
  sphereParams,        \* useState: the spheres, in insertion order
  selectedObject,      \* useState: the selected id
  selectedObjectType,  \* useState: "cylinder" or "sphere"
  newObjectType,       \* useState: the kind the Add Object dialog offers
  fileInput,           \* the value of the file input: the chosen file, or << >>
  readers,             \* the FileReaders whose readAsText has not completed
  saved,               \* the file handed to the download link, or << >>
  savedFrom,           \* history: the scene `saved` was written from
  last,                \* history: the last handler run and its effects
  steps                \* history: the number of handler runs so far

vars == << cylinderParams, sphereParams, selectedObject, selectedObjectType,
           newObjectType, fileInput, readers, saved, savedFrom, last, steps >>

\* what an observer of the scene sees
Scene ==
  [ cyl |-> cylinderParams, sph |-> sphereParams,
    sel |-> selectedObject, selType |-> selectedObjectType ]

\* the useState defaults of App
DefaultCylinders ==
  << Cylinder(CylinderId(1), One, 2 * One, << 0, 0, 0 >>, << 0, 0, 0 >>, "concrete"),
     Cylinder(CylinderId(2), One, 2 * One, << 0, 0, 0 >>, << 2 * One, 0, 0 >>, "concrete") >>

DefaultSpheres ==
  << Sphere(SphereId(1), One, << 4 * One, 0, 0 >>, "concrete") >>

NoScene == [ cyl |-> << >>, sph |-> << >>, sel |-> << >>, selType |-> "" ]

Init ==
  /\ cylinderParams = DefaultCylinders
  /\ sphereParams = DefaultSpheres
  /\ selectedObject = CylinderId(1)
  /\ selectedObjectType = "cylinder"
  /\ newObjectType = "cylinder"
  /\ fileInput = << >>
  /\ readers = << >>
  /\ saved = << >>
  /\ savedFrom = NoScene
  /\ last = [op |-> "init"]
  /\ steps = 0

\* ------------------------------------------------------------------------
\* Bounds of the model
\* ------------------------------------------------------------------------

\* file reads in flight at once
MaxPending == 2

\* primitives of one kind in the scene
MaxObjects == 3

\* ------------------------------------------------------------------------
\* Selection and the Add Object dialog
\* ------------------------------------------------------------------------

\* a click on a mesh: onSelect of Scene / SceneSphere
handleObjectSelect(objectId, objectType) ==
  /\ \/ objectType = "cylinder" /\ Has(cylinderParams, objectId)
     \/ objectType = "sphere" /\ Has(sphereParams, objectId)
  /\ selectedObject' = objectId
  /\ selectedObjectType' = objectType
  /\ last' = [op |-> "select"]
  /\ UNCHANGED << cylinderParams, sphereParams, newObjectType, fileInput,
                  readers, saved, savedFrom >>

\* onChange of the Select Object dropdown, whose options are the keys
SelectObjectChange(newSelected) ==
  /\ Has(cylinderParams, newSelected) \/ Has(sphereParams, newSelected)
  /\ selectedObject' = newSelected
  /\ selectedObjectType' =
       IF Has(cylinderParams, newSelected) THEN "cylinder"
       ELSE IF Has(sphereParams, newSelected) THEN "sphere"
       ELSE selectedObjectType
  /\ last' = [op |-> "select"]
  /\ UNCHANGED << cylinderParams, sphereParams, newObjectType, fileInput,
                  readers, saved, savedFrom >>

setNewObjectType(type) ==
  /\ type # newObjectType
  /\ newObjectType' = type
  /\ last' = [op |-> "dialog"]
  /\ UNCHANGED << cylinderParams, sphereParams, selectedObject,
                  selectedObjectType, fileInput, readers, saved, savedFrom >>

\* addObject numbering the new object with the count, not the count + 1
addObjectAtCount ==
  /\ IF newObjectType = "cylinder"
     THEN LET count == Len(cylinderParams)
              newId == CylinderId(count)
          IN  /\ count < MaxObjects
              /\ cylinderParams' =
                   Put(cylinderParams,
                       Cylinder(newId, One, 2 * One, << 0, 0, 0 >>,
                                << count * 2 * One, 0, 0 >>, "concrete"))
              /\ selectedObject' = newId
              /\ selectedObjectType' = "cylinder"
              /\ UNCHANGED sphereParams
     ELSE LET count == Len(sphereParams)
              newId == SphereId(count)
          IN  /\ count < MaxObjects
              /\ sphereParams' =
                   Put(sphereParams,
                       Sphere(newId, One, << count * 2 * One, 0, 0 >>, "concrete"))
              /\ selectedObject' = newId
              /\ selectedObjectType' = "sphere"
              /\ UNCHANGED cylinderParams
  /\ last' = [op |-> "add", pre |-> Scene]
  /\ UNCHANGED << newObjectType, fileInput, readers, saved, savedFrom >>

addObject ==
  /\ IF newObjectType = "cylinder"
     THEN LET count == Len(cylinderParams)
              newId == CylinderId(count + 1)
          IN  /\ count < MaxObjects
              /\ cylinderParams' =
                   Put(cylinderParams,
                       Cylinder(newId, One, 2 * One, << 0, 0, 0 >>,
                                << count * 2 * One, 0, 0 >>, "concrete"))
              /\ selectedObject' = newId
              /\ selectedObjectType' = "cylinder"
              /\ UNCHANGED sphereParams
     ELSE LET count == Len(sphereParams)
              newId == SphereId(count + 1)
          IN  /\ count < MaxObjects
              /\ sphereParams' =
                   Put(sphereParams,
                       Sphere(newId, One, << count * 2 * One, 0, 0 >>, "concrete"))
              /\ selectedObject' = newId
              /\ selectedObjectType' = "sphere"
              /\ UNCHANGED cylinderParams
  /\ last' = [op |-> "add", pre |-> Scene]
  /\ UNCHANGED << newObjectType, fileInput, readers, saved, savedFrom >>

\* ------------------------------------------------------------------------
\* Edits through the controls
\* ------------------------------------------------------------------------

\* { ...prev[selectedObject] }: the entry of the selected id, and an entry
\* with every field undefined (a NaN wherever it is used as a number) when
\* the object has no such key
SpreadCylinder(prev, id) ==
  IF Has(prev, id) THEN prev[IndexOf(prev, id)]
  ELSE [ id |-> id, radiusTop |-> NaN, radiusBottom |-> NaN, height |-> NaN,
         rotation |-> << NaN, NaN, NaN >>, position |-> << NaN, NaN, NaN >>,
         materialType |-> "undefined" ]

SpreadSphere(prev, id) ==
  IF Has(prev, id) THEN prev[IndexOf(prev, id)]
  ELSE [ id |-> id, radius |-> NaN, position |-> << NaN, NaN, NaN >>,
         materialType |-> "undefined" ]

\* the values the model sets a position control to (the number input takes
\* any number, the slider the multiples of its step)
PositionValues == { One, -(3 * One) \div 2 }

\* the state an edit leaves as it is
EditFrame == << selectedObject, selectedObjectType, newObjectType, fileInput,
                readers, saved, savedFrom >>

\* the radius update that writes radiusTop alone
updateRadiusTop(value) ==
  /\ IF selectedObjectType = "cylinder"
     THEN /\ cylinderParams' =
               Put(cylinderParams,
                   [SpreadCylinder(cylinderParams, selectedObject) EXCEPT
                      !.radiusTop = value])
          /\ UNCHANGED sphereParams
     ELSE /\ sphereParams' =
               Put(sphereParams,
                   [SpreadSphere(sphereParams, selectedObject) EXCEPT
                      !.radius = value])
          /\ UNCHANGED cylinderParams
  /\ last' = [op |-> "edit", pre |-> Scene]
  /\ UNCHANGED EditFrame

updateRadius(value) ==
  /\ IF selectedObjectType = "cylinder"
     THEN /\ cylinderParams' =
               Put(cylinderParams,
                   [SpreadCylinder(cylinderParams, selectedObject) EXCEPT
                      !.radiusTop = value, !.radiusBottom = value])
          /\ UNCHANGED sphereParams
     ELSE /\ sphereParams' =
               Put(sphereParams,
                   [SpreadSphere(sphereParams, selectedObject) EXCEPT
                      !.radius = value])
          /\ UNCHANGED cylinderParams
  /\ last' = [op |-> "edit", pre |-> Scene]
  /\ UNCHANGED EditFrame

\* updateParam writing the height into every cylinder
updateParamEvery(value) ==
  /\ selectedObjectType = "cylinder"
  /\ cylinderParams' =
       [i \in 1..Len(cylinderParams) |-> [cylinderParams[i] EXCEPT !.height = value]]
  /\ last' = [op |-> "edit", pre |-> Scene]
  /\ UNCHANGED << sphereParams, EditFrame >>

\* updateParam('height', value): the Height control, shown for a cylinder
updateParam(value) ==
  /\ selectedObjectType = "cylinder"
  /\ cylinderParams' =
       Put(cylinderParams,
           [SpreadCylinder(cylinderParams, selectedObject) EXCEPT
              !.height = value])
  /\ last' = [op |-> "edit", pre |-> Scene]
  /\ UNCHANGED << sphereParams, EditFrame >>

updateRotation(axisIndex, value) ==
  /\ selectedObjectType = "cylinder"
  /\ Has(cylinderParams, selectedObject)
  /\ LET newRotation ==
           [SpreadCylinder(cylinderParams, selectedObject).rotation
              EXCEPT ![axisIndex] = value]
     IN  cylinderParams' =
           Put(cylinderParams,
               [SpreadCylinder(cylinderParams, selectedObject) EXCEPT
                  !.rotation = newRotation])
  /\ last' = [op |-> "edit", pre |-> Scene]
  /\ UNCHANGED << sphereParams, EditFrame >>

updatePosition(axisIndex, value) ==
  /\ IF selectedObjectType = "cylinder"
     THEN /\ Has(cylinderParams, selectedObject)
          /\ LET newPosition ==
                   [SpreadCylinder(cylinderParams, selectedObject).position
                      EXCEPT ![axisIndex] = value]
             IN  cylinderParams' =
                   Put(cylinderParams,
                       [SpreadCylinder(cylinderParams, selectedObject) EXCEPT
                          !.position = newPosition])
          /\ UNCHANGED sphereParams
     ELSE /\ Has(sphereParams, selectedObject)
          /\ LET newPosition ==
                   [SpreadSphere(sphereParams, selectedObject).position
                      EXCEPT ![axisIndex] = value]
             IN  sphereParams' =
                   Put(sphereParams,
                       [SpreadSphere(sphereParams, selectedObject) EXCEPT
                          !.position = newPosition])
          /\ UNCHANGED cylinderParams
  /\ last' = [op |-> "edit", pre |-> Scene]
  /\ UNCHANGED EditFrame

updateMaterialType(value) ==
  /\ IF selectedObjectType = "cylinder"
     THEN /\ cylinderParams' =
               Put(cylinderParams,
                   [SpreadCylinder(cylinderParams, selectedObject) EXCEPT
                      !.materialType = value])
          /\ UNCHANGED sphereParams
     ELSE /\ sphereParams' =
               Put(sphereParams,
                   [SpreadSphere(sphereParams, selectedObject) EXCEPT
                      !.materialType = value])
          /\ UNCHANGED cylinderParams
  /\ last' = [op |-> "edit", pre |-> Scene]
  /\ UNCHANGED EditFrame

\* ------------------------------------------------------------------------
\* handleExport
\* ------------------------------------------------------------------------

\* handleExport going on whatever window.confirm returned
ExportProceedsAlways(collisions, answer) == TRUE

\* whether handleExport goes on to write the file: no collision was found,
\* or window.confirm returned true
ExportProceeds(collisions, answer) == collisions = << >> \/ answer

\* the calls handleExport makes to its collaborators, in order
ExportEvents(collisions, answer) ==
  << "detectCollisions" >>
  \o (IF collisions # << >> THEN << "confirm" >> ELSE << >>)
  \o (IF ExportProceeds(collisions, answer)
      THEN << "serialize", "download" >>
           \o (IF collisions # << >> THEN << "alert" >> ELSE << >>)
      ELSE << >>)

\* ExportAfterDetection leaving the cylinders in the opposite order, as a
\* collision scan that reversed its list of cylinders in place would
ExportAfterDetectionReversing(collisions, answer) ==
  /\ collisions = << >> => answer
  /\ IF ExportProceeds(collisions, answer)
     THEN /\ saved' = ExportLines(cylinderParams, sphereParams)
          /\ savedFrom' = Scene
     ELSE UNCHANGED << saved, savedFrom >>
  /\ last' = [ op |-> "export", pre |-> Scene, preSaved |-> saved,
               collisions |-> collisions, answer |-> answer,
               events |-> ExportEvents(collisions, answer) ]
  /\ cylinderParams' =
       [i \in 1..Len(cylinderParams) |->
          cylinderParams[Len(cylinderParams) + 1 - i]]
  /\ UNCHANGED << sphereParams, selectedObject,
                  selectedObjectType, newObjectType, fileInput, readers >>

\* handleExport from the result of detectCollisions on
ExportAfterDetection(collisions, answer) ==
  /\ collisions = << >> => answer
  /\ IF ExportProceeds(collisions, answer)
     THEN /\ saved' = ExportLines(cylinderParams, sphereParams)
          /\ savedFrom' = Scene
     ELSE UNCHANGED << saved, savedFrom >>
  /\ last' = [ op |-> "export", pre |-> Scene, preSaved |-> saved,
               collisions |-> collisions, answer |-> answer,
               events |-> ExportEvents(collisions, answer) ]
  /\ UNCHANGED << cylinderParams, sphereParams, selectedObject,
                  selectedObjectType, newObjectType, fileInput, readers >>

\* answer: what window.confirm returns when it is asked
handleExport(answer) ==
  ExportAfterDetection(detectCollisions(cylinderParams, sphereParams), answer)

\* ------------------------------------------------------------------------
\* handleFileImport and reader.onload
\* ------------------------------------------------------------------------

\* the files the model offers to the file dialog
RccWord == Word("rcc", 0)

SphWord == Word("sph", 0)

Footer == Joined(<< Word("oesnt", 0), Word("worend", 0), Word("geom", 0) >>)

EndBody == Joined(<< Word("end", 0), Word("body", 0) >>)

EndZone == Joined(<< Word("end", 0), Word("zone", 0) >>)

\* no primitive at all, and a numeric line
TextNoRecords ==
  << EndBody, EndZone, Joined(<< Digits(1), Digits(2) >>), Footer, << >> >>

\* an rcc line of 8 parts and an sph line of 5 parts
TextShortRecords ==
  << Joined(<< RccWord, Digits(1), Digits(0), Digits(0), Digits(0),
               Digits(0), Digits(2), Digits(0) >>),
     Joined(<< SphWord, Digits(2), Digits(0), Digits(0), Digits(1) >>),
     EndBody, << >> >>

\* two spheres, steel and wood
TextSpheres ==
  << Joined(<< SphWord, Digits(1), Decimal(FALSE, 1, 500000),
               Decimal(TRUE, 0, 250000), Digits(0), Decimal(FALSE, 0, 750000) >>),
     Joined(<< SphWord, Digits(2), Digits(5), Digits(0), Digits(0), Digits(1) >>),
     EndBody, ZoneLine(1), ZoneLine(2), EndZone,
     Joined(<< Digits(2), Digits(3) >>) \o << Blank >>, Footer, << >> >>

\* a sphere before a cylinder before a sphere, every index token 9
TextMixed ==
  << Joined(<< SphWord, Digits(9), Digits(3), Digits(0), Digits(0), Digits(1) >>),
     Joined(<< RccWord, Digits(9), Digits(0), Digits(0), Digits(0),
               Digits(2), Digits(0), Digits(0), Decimal(FALSE, 0, 500000) >>),
     Joined(<< SphWord, Digits(9), Digits(0), Digits(0), Digits(3), Digits(1) >>),
     EndBody, EndZone,
     Joined(<< Digits(4), Digits(2), Digits(7) >>), Footer, << >> >>

\* one cylinder and a numeric line of two codes
TextMismatch ==
  << Joined(<< RccWord, Digits(1), Digits(0), Digits(0), Digits(0),
               Digits(0), Digits(0), Digits(1), Digits(1) >>),
     EndBody, EndZone, Joined(<< Digits(2), Digits(3) >>), Footer, << >> >>

\* records whose numbers are malformed: x and y where a number is due, and
\* the radius 2cm
TextMalformed ==
  << Joined(<< SphWord, Digits(1), Word("x", 0), Digits(0), Digits(0), Digits(1) >>),
     Joined(<< RccWord, Digits(2), Digits(0), Digits(0), Digits(0),
               Digits(0), Word("y", 0), Digits(0), Trailed(2, "cm") >>),
     EndBody, << >> >>

\* the material line followed by another numeric line of the same length;
\* lines end in a carriage return and start with blanks
TextTrailing ==
  << << Blank >> \o Joined(<< Word("rccx", 0), Digits(1), Digits(0), Digits(0),
               Digits(0), Digits(0), Digits(2), Digits(0), Digits(1), Word("extra", 0) >>)
        \o << CarriageReturn >>,
     EndBody \o << CarriageReturn >>,
     << Digits(2), CarriageReturn >>,
     Footer \o << CarriageReturn >>,
     << Digits(3), CarriageReturn >>,
     << >> >>

\* two unit spheres whose centers are 2 apart, and nothing else
TextUnitSpheres ==
  << Joined(<< SphWord, Digits(1), Digits(0), Digits(0), Digits(0), Digits(1) >>),
     Joined(<< SphWord, Digits(2), Digits(2), Digits(0), Digits(0), Digits(1) >>),
     EndBody, << >> >>

\* two upright cylinders of radius 1 and height 2 on one axis, their centers
\* 10 apart along it
TextCoaxial ==
  << Joined(<< RccWord, Digits(1), Digits(0), Digits(0), Digits(0),
               Digits(0), Digits(2), Digits(0), Digits(1) >>),
     Joined(<< RccWord, Digits(2), Digits(0), Digits(10), Digits(0),
               Digits(0), Digits(2), Digits(0), Digits(1) >>),
     EndBody, << >> >>

\* a numeric line of two codes before the two spheres of the text
TextLeading ==
  << Joined(<< Digits(2), Digits(3) >>),
     Joined(<< SphWord, Digits(1), Digits(0), Digits(0), Digits(0), Digits(1) >>),
     Joined(<< SphWord, Digits(2), Digits(0), Digits(0), Digits(3), Digits(1) >>),
     EndBody, << >> >>

\* two cylinders of radius 1 and height 0.01 at right angles: one upright at
\* the origin, one along z whose axis line passes at the distance 1 from
\* the axis line of the first, their centers about 5 apart; and two unit
\* spheres above the first cylinder, one beside its rim and one over its cap
TextFlat ==
  << Joined(<< RccWord, Digits(1), Digits(0), Digits(0), Digits(0),
               Digits(0), Decimal(FALSE, 0, 10000), Digits(0), Digits(1) >>),
     Joined(<< RccWord, Digits(2), Digits(1), Digits(5), Digits(0),
               Digits(0), Digits(0), Decimal(FALSE, 0, 10000), Digits(1) >>),
     Joined(<< SphWord, Digits(3), Decimal(FALSE, 1, 500000),
               Decimal(FALSE, 0, 500000), Digits(0), Digits(1) >>),
     Joined(<< SphWord, Digits(4), Decimal(FALSE, 0, 500000),
               Decimal(FALSE, 0, 500000), Digits(0), Digits(1) >>),
     EndBody, << >> >>

SampleTexts ==
  { TextNoRecords, TextShortRecords, TextSpheres, TextMixed, TextMismatch,
    TextMalformed, TextTrailing, TextLeading }

\* the files the user can choose: a sample, or the file exported last
Files == SampleTexts \cup (IF saved = << >> THEN {} ELSE { saved })

\* onChange of the file input with no file chosen: `if (!file) return`
handleFileImportNoFile ==
  /\ fileInput' = << >>
  /\ last' = [op |-> "import", pre |-> Scene, started |-> FALSE]
  /\ UNCHANGED << cylinderParams, sphereParams, selectedObject,
                  selectedObjectType, newObjectType, readers, saved, savedFrom >>

\* onChange of the file input: a new FileReader starts to read the file.
\* The event fires when the chosen file differs from the input's value.
handleFileImport(file) ==
  /\ file # fileInput
  /\ Len(readers) < MaxPending
  /\ fileInput' = file
  /\ readers' = Append(readers, file)
  /\ last' = [op |-> "import", pre |-> Scene, started |-> TRUE]
  /\ UNCHANGED << cylinderParams, sphereParams, selectedObject,
                  selectedObjectType, newObjectType, saved, savedFrom >>

\* SceneAfterImport without the test of line 1289: the parsed maps replace
\* the scene even when both are empty
SceneAfterImportUnchecked(scene, parsed) ==
  [ cyl |-> parsed.newCylinderParams,
    sph |-> parsed.newSphereParams,
    sel |-> IF Len(parsed.newCylinderParams) > 0 THEN CylinderId(1)
            ELSE IF Len(parsed.newSphereParams) > 0 THEN SphereId(1)
            ELSE scene.sel,
    selType |-> IF Len(parsed.newCylinderParams) > 0 THEN "cylinder"
                ELSE IF Len(parsed.newSphereParams) > 0 THEN "sphere"
                ELSE scene.selType ]

\* SceneAfterImport merging into the previous objects, { ...prev, ...new },
\* instead of replacing them
SceneAfterImportMerging(scene, parsed) ==
  IF Len(parsed.newCylinderParams) > 0 \/ Len(parsed.newSphereParams) > 0
  THEN [ cyl |-> parsed.newCylinderParams
                 \o SelectSeq(scene.cyl,
                      LAMBDA e : ~Has(parsed.newCylinderParams, e.id)),
         sph |-> parsed.newSphereParams
                 \o SelectSeq(scene.sph,
                      LAMBDA e : ~Has(parsed.newSphereParams, e.id)),
         sel |-> IF Len(parsed.newCylinderParams) > 0 THEN CylinderId(1)
                 ELSE SphereId(1),
         selType |-> IF Len(parsed.newCylinderParams) > 0 THEN "cylinder"
                     ELSE "sphere" ]
  ELSE scene

\* SceneAfterImport replacing a map only when the file gave objects for it
SceneAfterImportPartial(scene, parsed) ==
  IF Len(parsed.newCylinderParams) > 0 \/ Len(parsed.newSphereParams) > 0
  THEN [ cyl |-> IF Len(parsed.newCylinderParams) > 0
                 THEN parsed.newCylinderParams ELSE scene.cyl,
         sph |-> IF Len(parsed.newSphereParams) > 0
                 THEN parsed.newSphereParams ELSE scene.sph,
         sel |-> IF Len(parsed.newCylinderParams) > 0 THEN CylinderId(1)
                 ELSE SphereId(1),
         selType |-> IF Len(parsed.newCylinderParams) > 0 THEN "cylinder"
                     ELSE "sphere" ]
  ELSE scene

\* SceneAfterImport selecting the first sphere whenever the file has one
SceneAfterImportSphereFirst(scene, parsed) ==
  IF Len(parsed.newCylinderParams) > 0 \/ Len(parsed.newSphereParams) > 0
  THEN [ cyl |-> parsed.newCylinderParams,
         sph |-> parsed.newSphereParams,
         sel |-> IF Len(parsed.newSphereParams) > 0 THEN SphereId(1)
                 ELSE CylinderId(1),
         selType |-> IF Len(parsed.newSphereParams) > 0 THEN "sphere"
                     ELSE "cylinder" ]
  ELSE scene

\* SceneAfterImport leaving the selection as it was
SceneAfterImportKeepingSelection(scene, parsed) ==
  IF Len(parsed.newCylinderParams) > 0 \/ Len(parsed.newSphereParams) > 0
  THEN [ cyl |-> parsed.newCylinderParams,
         sph |-> parsed.newSphereParams,
         sel |-> scene.sel,
         selType |-> scene.selType ]
  ELSE scene

\* the scene reader.onload leaves, for the scene it finds and a parsed text
SceneAfterImport(scene, parsed) ==
  IF Len(parsed.newCylinderParams) > 0 \/ Len(parsed.newSphereParams) > 0
  THEN [ cyl |-> parsed.newCylinderParams,
         sph |-> parsed.newSphereParams,
         sel |-> IF Len(parsed.newCylinderParams) > 0 THEN CylinderId(1)
                 ELSE IF Len(parsed.newSphereParams) > 0 THEN SphereId(1)
                 ELSE scene.sel,
         selType |-> IF Len(parsed.newCylinderParams) > 0 THEN "cylinder"
                     ELSE IF Len(parsed.newSphereParams) > 0 THEN "sphere"
                     ELSE scene.selType ]
  ELSE scene

\* whether reader.onload raises the alert 'No valid cylinder or sphere data'
ImportAlerts(parsed) ==
  ~(Len(parsed.newCylinderParams) > 0 \/ Len(parsed.newSphereParams) > 0)

\* reader.onload from the test of line 1289 on: the four setState calls, or
\* the alert, and the reset of the file input
OnloadCommit(k, parsed, after) ==
  /\ cylinderParams' = after.cyl
  /\ sphereParams' = after.sph
  /\ selectedObject' = after.sel
  /\ selectedObjectType' = after.selType
  /\ last' = [ op |-> "onload", text |-> readers[k], pre |-> Scene,
               alert |-> ImportAlerts(parsed),
               pending |-> Len(readers) ]
  /\ fileInput' = << >>
  /\ readers' = SubSeq(readers, 1, k - 1) \o SubSeq(readers, k + 1, Len(readers))
  /\ UNCHANGED << newObjectType, saved, savedFrom >>

\* reader.onload once the text is parsed
OnloadParsed(k, parsed) == OnloadCommit(k, parsed, SceneAfterImport(Scene, parsed))

\* the completion of the k-th pending read: reader.onload
readerOnload(k) ==
  /\ k \in 1..Len(readers)
  /\ OnloadParsed(k, ParseText(readers[k]))

\* ------------------------------------------------------------------------
\* Specifications
\* ------------------------------------------------------------------------

\* handler runs explored from startup on the import path
MaxImportSteps == 4

ObjectIds == Keys(cylinderParams) \o Keys(sphereParams)

SomeSelect ==
  \/ \E i \in 1..Len(cylinderParams) :
       handleObjectSelect(cylinderParams[i].id, "cylinder")
  \/ \E i \in 1..Len(sphereParams) :
       handleObjectSelect(sphereParams[i].id, "sphere")
  \/ \E i \in 1..Len(ObjectIds) : SelectObjectChange(ObjectIds[i])

\* one more handler run, of at most max
Tick(max) == steps < max /\ steps' = steps + 1

\* the import path: the user selects objects and imports files
NextImport ==
  \/ Tick(MaxImportSteps) /\ SomeSelect
  \/ Tick(MaxImportSteps) /\ handleFileImportNoFile
  \/ Tick(MaxImportSteps) /\ \E file \in Files : handleFileImport(file)
  \/ Tick(MaxImportSteps) /\ \E k \in 1..MaxPending : readerOnload(k)

Spec == Init /\ [][NextImport]_vars

\* handler runs explored from startup on the export path
MaxExportSteps == 3

\* the export path: the user selects, adds and edits objects and exports
NextExport ==
  \/ Tick(MaxExportSteps) /\ SomeSelect
  \/ Tick(MaxExportSteps) /\ \E type \in {"cylinder", "sphere"} : setNewObjectType(type)
  \/ Tick(MaxExportSteps) /\ addObject
  \/ Tick(MaxExportSteps) /\ \E value \in Materials : updateMaterialType(value)
  \/ Tick(MaxExportSteps) /\ \E value \in PositionValues : updatePosition(1, value)
  \/ Tick(MaxExportSteps) /\ \E answer \in BOOLEAN : handleExport(answer)

SpecExport == Init /\ [][NextExport]_vars

\* edits explored before the export of a round trip
MaxRoundTripEdits == 2

\* the values typed into the number inputs before a round trip: numbers
\* with a seventh decimal, a height of zero, a negative one and small ones,
\* an emptied radius field
RoundTripRadiusValues == { One \div 2, 2 * One + 4, NaN }

RoundTripHeightValues == { 0, One \div 1000, One \div 100, 3 * One + 5, -One }

RoundTripPositionValues == { One + 7, -(3 * One) \div 2 }

\* the rotation sliders: multiples of 0.01
RoundTripRotationValues ==
  { << 1, One \div 2 >>, << 2, One \div 4 >>,
    << 3, (17 * One) \div 100 >>, << 3, -(33 * One) \div 100 >> }

\* no read is pending and nothing has been exported yet
Editable == readers = << >> /\ saved = << >>

\* a round trip: the user may first import a sample, then edits the selected
\* object, exports, and imports the exported file
NextRoundTrip ==
  \/ /\ last.op = "init"
     /\ \E file \in { TextSpheres, TextMixed } : handleFileImport(file)
     /\ UNCHANGED steps
  \/ (\E k \in 1..MaxPending : readerOnload(k)) /\ UNCHANGED steps
  \/ Editable /\ Tick(MaxRoundTripEdits)
       /\ \E value \in RoundTripRadiusValues : updateRadius(value)
  \/ Editable /\ Tick(MaxRoundTripEdits)
       /\ \E value \in RoundTripHeightValues : updateParam(value)
  \/ Editable /\ Tick(MaxRoundTripEdits)
       /\ \E r \in RoundTripRotationValues : updateRotation(r[1], r[2])
  \/ Editable /\ Tick(MaxRoundTripEdits)
       /\ \E axisIndex \in 1..2 :
            \E value \in RoundTripPositionValues : updatePosition(axisIndex, value)
  \/ Editable /\ Tick(MaxRoundTripEdits)
       /\ \E value \in { "steel", "standard" } : updateMaterialType(value)
  \/ Editable /\ (\E answer \in BOOLEAN : handleExport(answer)) /\ UNCHANGED steps
  \/ /\ last.op = "export"
     /\ saved # << >>
     /\ handleFileImport(saved)
     /\ UNCHANGED steps

SpecRoundTrip == Init /\ [][NextRoundTrip]_vars

\* edits explored from a scene on the collision path
MaxCollisionSteps == 2

\* the positions, rotations and the radius set on the collision path: centers
\* 1.5, 1.98 and 1.99 from an object 2 away, a center 10 up the Y axis, a
\* quarter turn about X and about Z, a radius of one half
CollisionPositionValues ==
  { << 1, One \div 2 >>, << 1, One \div 50 >>, << 1, One \div 100 >>,
    << 1, One >>, << 2, 10 * One >> }

CollisionRotationValues == { << 1, One \div 2 >>, << 3, One \div 2 >> }

CollisionRadiusValues == { One \div 2, NaN }

\* the collision path: the user may first import a sample, then selects, adds
\* and edits objects, and exports, which runs detectCollisions
NextCollision ==
  \/ /\ last.op = "init"
     /\ \E file \in { TextUnitSpheres, TextCoaxial, TextFlat } :
          handleFileImport(file)
     /\ UNCHANGED steps
  \/ (\E k \in 1..MaxPending : readerOnload(k)) /\ UNCHANGED steps
  \/ Editable /\ Tick(MaxCollisionSteps) /\ SomeSelect
  \/ Editable /\ Tick(MaxCollisionSteps)
       /\ \E type \in {"cylinder", "sphere"} : setNewObjectType(type)
  \/ Editable /\ Tick(MaxCollisionSteps) /\ addObject
  \/ Editable /\ Tick(MaxCollisionSteps)
       /\ \E p \in CollisionPositionValues : updatePosition(p[1], p[2])
  \/ Editable /\ Tick(MaxCollisionSteps)
       /\ \E r \in CollisionRotationValues : updateRotation(r[1], r[2])
  \/ Editable /\ Tick(MaxCollisionSteps)
       /\ \E value \in CollisionRadiusValues : updateRadius(value)
  \/ Editable /\ (\E answer \in BOOLEAN : handleExport(answer)) /\ UNCHANGED steps

SpecCollision == Init /\ [][NextCollision]_vars

\* handler runs explored from startup on the editing path
MaxEditSteps == 3

\* the editing path: from the startup scene the user selects and adds
\* objects, edits radius, height, rotation, position and material through
\* the controls, and imports files, whose reads complete at any later time
NextEdit ==
  \/ Tick(MaxEditSteps) /\ SomeSelect
  \/ Tick(MaxEditSteps) /\ \E type \in {"cylinder", "sphere"} : setNewObjectType(type)
  \/ Tick(MaxEditSteps) /\ addObject
  \/ Tick(MaxEditSteps) /\ \E value \in RoundTripRadiusValues : updateRadius(value)
  \/ Tick(MaxEditSteps) /\ \E value \in RoundTripHeightValues : updateParam(value)
  \/ Tick(MaxEditSteps) /\ \E r \in RoundTripRotationValues : updateRotation(r[1], r[2])
  \/ Tick(MaxEditSteps) /\ \E value \in PositionValues : updatePosition(1, value)
  \/ Tick(MaxEditSteps) /\ \E value \in { "steel", "wood" } : updateMaterialType(value)
  \/ Tick(MaxEditSteps) /\ \E file \in { TextSpheres, TextMixed } : handleFileImport(file)
  \/ (\E k \in 1..MaxPending : readerOnload(k)) /\ UNCHANGED steps

SpecEdit == Init /\ [][NextEdit]_vars

\* ------------------------------------------------------------------------
\* Claims about import
\* ------------------------------------------------------------------------

\* the lines of a text that import recognizes as a cylinder: they start
\* with rcc and have at least 9 parts
RecognizedRcc(text) ==
  SelectSeq(text, LAMBDA l : StartsWith(Trim(l), "rcc")
                             /\ Len(SplitSpaces(Trim(l))) >= 9)

\* the lines of a text that import recognizes as a sphere
RecognizedSph(text) ==
  SelectSeq(text, LAMBDA l : StartsWith(Trim(l), "sph")
                             /\ Len(SplitSpaces(Trim(l))) >= 6)

\* the geometry of an entry: every field but the material
SameGeometry(a, b) == [a EXCEPT !.materialType = ""] = [b EXCEPT !.materialType = ""]

\* C1: an import of a text with no recognized rcc or sph record raises the
\* alert and leaves the cylinders, the spheres and the selection as they
\* were before the completion ran.
C1_EmptyImportLeavesScene ==
  (last.op = "onload"
     /\ Len(RecognizedRcc(last.text)) = 0 /\ Len(RecognizedSph(last.text)) = 0)
  => (last.alert /\ Scene = last.pre)

\* an import of a text without records has completed (one with short
\* records, which are not recognized)
C1_Witness ==
  /\ last.op = "onload"
  /\ last.text = TextShortRecords
  /\ last.alert

\* C2: after an import that recognized C rcc and S sph records, C + S >= 1,
\* the scene holds exactly the cylinders cylinder1..cylinderC and the
\* spheres sphere1..sphereS, the i-th of a kind built from the i-th
\* recognized record of that kind whatever index the record carries.
C2_ImportReplacesAndRenumbers ==
  (last.op = "onload"
     /\ Len(RecognizedRcc(last.text)) + Len(RecognizedSph(last.text)) >= 1)
  => LET rcc == RecognizedRcc(last.text)
         sph == RecognizedSph(last.text)
     IN  /\ ~last.alert
         /\ Keys(cylinderParams) = [i \in 1..Len(rcc) |-> CylinderId(i)]
         /\ Keys(sphereParams) = [j \in 1..Len(sph) |-> SphereId(j)]
         /\ \A i \in 1..Len(rcc) :
              SameGeometry(cylinderParams[i],
                CylinderOfParts(CylinderId(i), SplitSpaces(Trim(rcc[i]))))
         /\ \A j \in 1..Len(sph) :
              SameGeometry(sphereParams[j],
                SphereOfParts(SphereId(j), SplitSpaces(Trim(sph[j]))))

\* the file whose records all carry the index 9, a sphere first, has been
\* imported over a scene that held more cylinders than the file
C2_Witness ==
  /\ last.op = "onload"
  /\ last.text = TextMixed
  /\ Len(last.pre.cyl) > Len(cylinderParams)
  /\ Len(sphereParams) = 2

\* what an import of a text makes of the scene when it recognizes a record
ImportResult(text) ==
  LET parsed == ParseText(text)
  IN  [ cyl |-> parsed.newCylinderParams,
        sph |-> parsed.newSphereParams,
        sel |-> IF parsed.newCylinderParams # << >> THEN CylinderId(1)
                ELSE SphereId(1),
        selType |-> IF parsed.newCylinderParams # << >> THEN "cylinder"
                    ELSE "sphere" ]

\* C3: an import never shows a mixed scene: starting the read leaves the
\* cylinders, the spheres and the selection as they are, and the completion
\* either leaves all three as they are or sets all three to the import's
\* result in one step.
C3_ImportAtomic ==
  /\ last.op = "import" => Scene = last.pre
  /\ last.op = "onload" =>
       Scene = last.pre \/ Scene = ImportResult(last.text)

\* an import of a file with one cylinder and no sphere has replaced a scene
\* that held a sphere, and changed the cylinders and the selection with it
C3_Witness ==
  /\ last.op = "onload"
  /\ last.text = TextMismatch
  /\ last.pre.sph # << >>
  /\ last.pre.cyl # cylinderParams
  /\ sphereParams = << >>

\* C4: at most one file read is in flight at any time.
C4_SingleImportInFlight == Len(readers) <= 1

\* ------------------------------------------------------------------------
\* Claims about export
\* ------------------------------------------------------------------------

\* the positions of an event among the calls of the last handleExport
EventAt(name) == { i \in 1..Len(last.events) : last.events[i] = name }

\* the last handler was handleExport and it wrote the file
Exported == last.op = "export" /\ EventAt("download") # {}

\* C5: handleExport runs collision detection exactly once and before it
\* serializes; it asks for confirmation exactly when a colliding pair was
\* found; it writes the file exactly when no pair was found or the user
\* confirmed, and a cancelled export leaves the saved file as it was.
C5_ExportGate ==
  last.op = "export" =>
    LET colliding == detectCollisions(last.pre.cyl, last.pre.sph) # << >>
    IN  /\ EventAt("detectCollisions") = {1}
        /\ \A i \in EventAt("serialize") : i > 1
        /\ (EventAt("confirm") # {}) <=> colliding
        /\ (EventAt("download") # {}) <=> (~colliding \/ last.answer)
        /\ EventAt("download") # {} =>
             /\ EventAt("serialize") # {}
             /\ saved = ExportLines(last.pre.cyl, last.pre.sph)
        /\ (colliding /\ ~last.answer) =>
             /\ saved = last.preSaved
             /\ EventAt("serialize") = {}

\* an export of a scene with a colliding pair has been cancelled
C5_Witness ==
  /\ last.op = "export"
  /\ last.collisions # << >>
  /\ ~last.answer
  /\ saved = << >>

\* the code the material line carries for a material
MaterialCode(materialType) ==
  CASE materialType = "concrete" -> 1
    [] materialType = "steel"    -> 2
    [] materialType = "wood"     -> 3
    [] materialType = "standard" -> 4

\* C6: the material line of an exported file holds one code per primitive,
\* and its k-th code is the code of the material of the primitive written
\* in the body with the index k.
C6_MaterialLine ==
  Exported =>
    LET nc    == Len(last.pre.cyl)
        objs  == last.pre.cyl \o last.pre.sph
        n     == Len(objs)
        codes == SplitSpaces(Trim(saved[2 * n + 3]))
    IN  /\ n >= 1
        /\ Len(codes) = n
        /\ \A k \in 1..n :
             /\ SplitSpaces(saved[k])[2] = Digits(k)
             /\ saved[k] = IF k <= nc THEN RccLine(k, objs[k])
                           ELSE SphLine(k, objs[k])
             /\ codes[k] = Digits(MaterialCode(objs[k].materialType))

\* a file has been exported from a scene whose first cylinder is of steel
\* or wood and whose sphere is of another material
C6_Witness ==
  /\ Exported
  /\ last.pre.cyl[1].materialType \in {"steel", "wood"}
  /\ last.pre.sph[1].materialType # last.pre.cyl[1].materialType

\* C7: an exported file holds the rcc lines of the cylinders in insertion
\* order with the indices 1..C, then the sph lines of the spheres with the
\* indices C+1..C+S, then 'end body', then the zone lines 'zn<i> 1 <i>' for
\* i = 1..C+S in order, then 'end zone'.
C7_ExportOrder ==
  Exported =>
    LET nc == Len(last.pre.cyl)
        ns == Len(last.pre.sph)
        n  == nc + ns
    IN  /\ Len(saved) >= 2 * n + 2
        /\ \A i \in 1..nc :
             /\ SplitSpaces(saved[i])[1] = Word("rcc", 0)
             /\ SplitSpaces(saved[i])[2] = Digits(i)
             /\ saved[i] = RccLine(i, last.pre.cyl[i])
        /\ \A j \in 1..ns :
             /\ SplitSpaces(saved[nc + j])[1] = Word("sph", 0)
             /\ SplitSpaces(saved[nc + j])[2] = Digits(nc + j)
             /\ saved[nc + j] = SphLine(nc + j, last.pre.sph[j])
        /\ saved[n + 1] = << Word("end", 0), Blank, Word("body", 0) >>
        /\ \A i \in 1..n :
             saved[n + 1 + i] =
               << Word("zn", i), Blank, Digits(1), Blank, Digits(i) >>
        /\ saved[2 * n + 2] = << Word("end", 0), Blank, Word("zone", 0) >>

\* a file has been exported from a scene of three cylinders and a sphere,
\* the third cylinder added after the sphere
C7_Witness ==
  /\ Exported
  /\ Len(last.pre.cyl) = 3
  /\ Len(last.pre.sph) >= 1

\* ------------------------------------------------------------------------
\* Claims about the round trip
\* ------------------------------------------------------------------------

\* the last handler completed the import of the file exported from the
\* scene that was on display
RoundTrip ==
  /\ last.op = "onload"
  /\ saved # << >>
  /\ last.text = saved
  /\ last.pre = savedFrom

\* two Numbers agree to six decimals: they differ by at most 1e-6, or both
\* are NaN
Close6(a, b) ==
  IF IsNaN(a) \/ IsNaN(b) THEN IsNaN(a) /\ IsNaN(b)
  ELSE Abs(a - b) <= One \div Micro

Close6Vec(a, b) == \A i \in 1..3 : Close6(a[i], b[i])

\* C8: the round trip of a scene of spheres only gives the same number of
\* spheres in the same order, each with the same center and radius to six
\* decimals and the same material.
C8_SphereRoundTrip ==
  (RoundTrip /\ savedFrom.cyl = << >> /\ savedFrom.sph # << >>)
  => /\ cylinderParams = << >>
     /\ Len(sphereParams) = Len(savedFrom.sph)
     /\ \A i \in 1..Len(savedFrom.sph) :
          /\ sphereParams[i].id = SphereId(i)
          /\ savedFrom.sph[i].id = SphereId(i)
          /\ Close6Vec(sphereParams[i].position, savedFrom.sph[i].position)
          /\ Close6(sphereParams[i].radius, savedFrom.sph[i].radius)
          /\ sphereParams[i].materialType = savedFrom.sph[i].materialType

\* a scene of two spheres of different materials, one moved to a center
\* with a seventh decimal, has made the round trip
C8_Witness ==
  /\ RoundTrip
  /\ savedFrom.cyl = << >>
  /\ Len(savedFrom.sph) = 2
  /\ savedFrom.sph[1].position[1] = One + 7
  /\ savedFrom.sph[1].materialType # savedFrom.sph[2].materialType

\* C9: after the round trip a cylinder whose orientation was [0, 0, 0] has
\* the same center, height and radius to six decimals and the orientation
\* [0, 0, 0].
C9_UprightRoundTrip ==
  RoundTrip =>
    \A i \in 1..Len(savedFrom.cyl) :
      savedFrom.cyl[i].rotation = << 0, 0, 0 >> =>
        /\ i <= Len(cylinderParams)
        /\ Close6Vec(cylinderParams[i].position, savedFrom.cyl[i].position)
        /\ Close6(cylinderParams[i].height, savedFrom.cyl[i].height)
        /\ Close6(cylinderParams[i].radiusTop, savedFrom.cyl[i].radiusTop)
        /\ cylinderParams[i].rotation = << 0, 0, 0 >>

\* the distance of two directions is at most 1e-4
CloseDirection(d1, d2) ==
  /\ ~AnyNaN(d1)
  /\ ~AnyNaN(d2)
  /\ Length(Vec3Sub(d1, d2)) <= TrigOne \div 10000

C11_ImportSelectsFirst ==
  (last.op = "onload" /\ ~last.alert) =>
    IF Len(RecognizedRcc(last.text)) >= 1
    THEN selectedObject = CylinderId(1) /\ selectedObjectType = "cylinder"
    ELSE selectedObject = SphereId(1) /\ selectedObjectType = "sphere"

\* a file of spheres only has been imported while a cylinder was selected,
\* and a file with a sphere before a cylinder while a sphere was selected
C11_Witness ==
  /\ last.op = "onload"
  /\ \/ /\ last.text = TextSpheres
        /\ last.pre.selType = "cylinder"
        /\ selectedObject = SphereId(1)
     \/ /\ last.text = TextMixed
        /\ last.pre.selType = "sphere"
        /\ selectedObject = CylinderId(1)

\* the all-integer lines of a text: the lines the loop of reader.onload
\* takes as a material list, each replacing the one before
MaterialLines(text) ==
  SelectSeq(text, LAMBDA l : /\ ~StartsWith(Trim(l), "rcc")
                             /\ ~StartsWith(Trim(l), "sph")
                             /\ IsDigitsLine(Trim(l)))

\* the codes of the material list of a text: those of its last all-integer
\* line, none when it has no such line
MaterialCodes(text) ==
  IF MaterialLines(text) = << >> THEN << >>
  ELSE [i \in 1..Len(SplitSpaces(Trim(MaterialLines(text)[Len(MaterialLines(text))])))
          |-> SplitSpaces(Trim(MaterialLines(text)[Len(MaterialLines(text))]))[i].ip]

\* the number of primitives import recognizes in a text
RecognizedCount(text) == Len(RecognizedRcc(text)) + Len(RecognizedSph(text))

\* the text has no all-integer line, or one of another length than the
\* number of recognized primitives
MaterialListMismatch(text) == Len(MaterialCodes(text)) # RecognizedCount(text)

\* every primitive of the scene is of concrete
AllConcrete ==
  /\ \A i \in 1..Len(cylinderParams) : cylinderParams[i].materialType = "concrete"
  /\ \A j \in 1..Len(sphereParams) : sphereParams[j].materialType = "concrete"

\* C12 as stated: whenever the material list of the imported text has
\* another length than the number of recognized primitives, or the text has
\* no all-integer line, the import succeeds and every primitive is of
\* concrete.
C12_MismatchSkipsMaterials ==
  (last.op = "onload" /\ MaterialListMismatch(last.text))
  => (~last.alert /\ AllConcrete)

\* C12, amended: when the text holds at least one recognized primitive and
\* its material list has another length than their number (or the text has
\* no all-integer line), the import succeeds and every imported primitive
\* is of concrete.
C12_MismatchSkipsMaterialsOfRecords ==
  (last.op = "onload" /\ MaterialListMismatch(last.text)
     /\ RecognizedCount(last.text) >= 1)
  => (~last.alert /\ AllConcrete
        /\ Len(cylinderParams) + Len(sphereParams) = RecognizedCount(last.text))

\* a file of one cylinder and two codes has been imported
C12_Witness ==
  /\ last.op = "onload"
  /\ last.text = TextMismatch
  /\ Len(MaterialCodes(last.text)) = 2
  /\ Len(cylinderParams) = 1
  /\ cylinderParams[1].materialType = "concrete"

\* the kinds of the recognized records of a text, in the order of its lines
RecognizedKinds(text) ==
  [k \in 1..RecognizedCount(text) |->
     IF StartsWith(Trim(SelectSeq(text,
          LAMBDA l : \/ StartsWith(Trim(l), "rcc") /\ Len(SplitSpaces(Trim(l))) >= 9
                     \/ StartsWith(Trim(l), "sph") /\ Len(SplitSpaces(Trim(l))) >= 6)[k]),
          "rcc")
     THEN "cylinder" ELSE "sphere"]

\* the material of the k-th recognized primitive of the imported text: the
\* primitive is the n-th of its kind when n of the first k are of its kind
MaterialOfRecord(kinds, k) ==
  IF kinds[k] = "cylinder"
  THEN cylinderParams[Cardinality({j \in 1..k : kinds[j] = "cylinder"})].materialType
  ELSE sphereParams[Cardinality({j \in 1..k : kinds[j] = "sphere"})].materialType

\* the material code table of the specification
MaterialOfCode(code) ==
  CASE code = 1 -> "concrete"
    [] code = 2 -> "steel"
    [] code = 3 -> "wood"
    [] code = 4 -> "standard"
    [] OTHER -> "concrete"

\* C13: when an import accepts the material list (as many codes as
\* recognized primitives, at least one), the k-th primitive in the order of
\* the file, counted across cylinders and spheres, has the material of the
\* k-th code: 1 concrete, 2 steel, 3 wood, 4 standard, any other concrete.
C13_MaterialsInFileOrder ==
  (last.op = "onload" /\ RecognizedCount(last.text) >= 1
     /\ ~MaterialListMismatch(last.text))
  => \A k \in 1..RecognizedCount(last.text) :
       MaterialOfRecord(RecognizedKinds(last.text), k)
         = MaterialOfCode(MaterialCodes(last.text)[k])

\* the file of a sphere, a cylinder and a sphere with the codes 4 2 7 has
\* been imported: standard, steel, and concrete for the code 7
C13_Witness ==
  /\ last.op = "onload"
  /\ last.text = TextMixed
  /\ RecognizedKinds(last.text) = << "sphere", "cylinder", "sphere" >>
  /\ MaterialCodes(last.text) = << 4, 2, 7 >>
  /\ sphereParams[1].materialType = "standard"
  /\ cylinderParams[1].materialType = "steel"
  /\ sphereParams[2].materialType = "concrete"

\* ------------------------------------------------------------------------
\* Claims about the collision scan
\* ------------------------------------------------------------------------

\* C14: handleExport, with the collision scan it runs, leaves the scene as
\* it is, whether the file is written or the export is cancelled at the
\* prompt: the cylinders and the spheres with every field, their order and
\* the selection are the same after it as before.
C14_ExportLeavesScene ==
  last.op = "export" => Scene = last.pre

\* an export has been written although the scan found a colliding pair, from
\* a scene that an edit had changed
C14_Witness ==
  /\ last.op = "export"
  /\ last.collisions # << >>
  /\ last.answer
  /\ saved = ExportLines(cylinderParams, sphereParams)
  /\ cylinderParams # DefaultCylinders

\* the last export's scan reported the pair << id1, id2 >>
Reported(id1, id2) ==
  \E k \in 1..Len(last.collisions) : last.collisions[k] = << id1, id2 >>

\* two cylinders with finite fields whose axes have the same direction
SameDirection(cyl1, cyl2) ==
  /\ ~CylHasNaN(cyl1) /\ ~CylHasNaN(cyl2)
  /\ eulerToDirection(cyl1.rotation) = eulerToDirection(cyl2.rotation)

\* the distance between the positions of two primitives
CenterDistance(a, b) == Length(Vec3Sub(b.position, a.position))

\* C15 as stated: two cylinders with the same axis direction whose offset
\* across the axis is less than r1 + r2 are reported as colliding, however
\* far apart their centers are along the axis.
C15_ParallelIgnoresAxialOffset ==
  last.op = "export" =>
    \A i \in 1..Len(last.pre.cyl) : \A j \in (i + 1)..Len(last.pre.cyl) :
      (SameDirection(last.pre.cyl[i], last.pre.cyl[j])
         /\ OffsetAcross(last.pre.cyl[i], last.pre.cyl[j],
                         eulerToDirection(last.pre.cyl[i].rotation))
              < last.pre.cyl[i].radiusTop + last.pre.cyl[j].radiusTop)
      => Reported(last.pre.cyl[i].id, last.pre.cyl[j].id)

\* C15, amended: two cylinders with finite fields and the same axis
\* direction are reported as colliding exactly when the distance between
\* their centers, the offset along the axis included, is less than r1 + r2.
C15_ParallelByCenterDistance ==
  last.op = "export" =>
    \A i \in 1..Len(last.pre.cyl) : \A j \in (i + 1)..Len(last.pre.cyl) :
      SameDirection(last.pre.cyl[i], last.pre.cyl[j])
      => (Reported(last.pre.cyl[i].id, last.pre.cyl[j].id)
            <=> CenterDistance(last.pre.cyl[i], last.pre.cyl[j])
                  < last.pre.cyl[i].radiusTop + last.pre.cyl[j].radiusTop)

\* the scan has run on two cylinders on one axis, 10 apart along it: their
\* offset across the axis is less than r1 + r2 and the pair is not reported
C15_Witness ==
  /\ last.op = "export"
  /\ Len(last.pre.cyl) = 2
  /\ SameDirection(last.pre.cyl[1], last.pre.cyl[2])
  /\ OffsetAcross(last.pre.cyl[1], last.pre.cyl[2],
                  eulerToDirection(last.pre.cyl[1].rotation)) = 0
  /\ CenterDistance(last.pre.cyl[1], last.pre.cyl[2]) = 10 * One
  /\ ~Reported(CylinderId(1), CylinderId(2))

\* the scene the last export scanned holds two unit spheres and nothing else
TwoUnitSpheres ==
  /\ last.pre.cyl = << >>
  /\ Len(last.pre.sph) = 2
  /\ last.pre.sph[1].radius = One /\ last.pre.sph[2].radius = One

\* C16: the scan reports two spheres exactly when the distance between
\* their centers is strictly less than r1 + r2 - 0.01; for two unit spheres
\* and nothing else it reports exactly one pair when the centers are 1.5
\* apart and none when they are 2.0 apart.
C16_SpheresCollideWithinMargin ==
  last.op = "export" =>
    /\ \A i \in 1..Len(last.pre.sph) : \A j \in (i + 1)..Len(last.pre.sph) :
         Reported(last.pre.sph[i].id, last.pre.sph[j].id)
           <=> /\ ~SphHasNaN(last.pre.sph[i]) /\ ~SphHasNaN(last.pre.sph[j])
               /\ CenterDistance(last.pre.sph[i], last.pre.sph[j])
                    < last.pre.sph[i].radius + last.pre.sph[j].radius
                        - One \div 100
    /\ (TwoUnitSpheres
          /\ CenterDistance(last.pre.sph[1], last.pre.sph[2]) = (3 * One) \div 2)
       => Len(last.collisions) = 1
    /\ (TwoUnitSpheres
          /\ CenterDistance(last.pre.sph[1], last.pre.sph[2]) = 2 * One)
       => Len(last.collisions) = 0

\* the scan has run on two unit spheres 1.5 apart and reported the one pair
C16_Witness ==
  /\ last.op = "export"
  /\ TwoUnitSpheres
  /\ CenterDistance(last.pre.sph[1], last.pre.sph[2]) = (3 * One) \div 2
  /\ last.collisions = << << SphereId(1), SphereId(2) >> >>

\* the pairs the scan has to list for the scanned scene: every unordered pair
\* of two cylinders, of two spheres, and of a cylinder and a sphere, whose
\* own test is true
CollidingPairs(cyls, sphs) ==
  { << cyls[i].id, cyls[j].id >> :
      << i, j >> \in { q \in (1..Len(cyls)) \X (1..Len(cyls)) :
                        q[1] < q[2]
                        /\ checkCylinderCollision(cyls[q[1]], cyls[q[2]]) } }
  \cup
  { << sphs[i].id, sphs[j].id >> :
      << i, j >> \in { q \in (1..Len(sphs)) \X (1..Len(sphs)) :
                        q[1] < q[2]
                        /\ checkSphereCollision(sphs[q[1]], sphs[q[2]]) } }
  \cup
  { << cyls[i].id, sphs[j].id >> :
      << i, j >> \in { q \in (1..Len(cyls)) \X (1..Len(sphs)) :
                        checkCylinderSphereCollision(cyls[q[1]], sphs[q[2]]) } }

PrimitiveCount(scene) == Len(scene.cyl) + Len(scene.sph)

\* C17: the scan returns exactly the unordered pairs of distinct primitives
\* (cylinder-cylinder, sphere-sphere, cylinder-sphere) whose test is true:
\* no pair is listed twice or in both orders, no primitive is paired with
\* itself, and at most n(n-1)/2 pairs are returned for n primitives.
C17_ScanListsEachPairOnce ==
  last.op = "export" =>
    /\ { last.collisions[k] : k \in 1..Len(last.collisions) }
         = CollidingPairs(last.pre.cyl, last.pre.sph)
    /\ \A k \in 1..Len(last.collisions) : \A l \in 1..Len(last.collisions) :
         /\ k # l => last.collisions[k] # last.collisions[l]
         /\ last.collisions[k]
              # << last.collisions[l][2], last.collisions[l][1] >>
    /\ 2 * Len(last.collisions)
         <= PrimitiveCount(last.pre) * (PrimitiveCount(last.pre) - 1)

\* the scan has run on four primitives and listed a pair of cylinders
\* together with a pair of a cylinder and a sphere
C17_Witness ==
  /\ last.op = "export"
  /\ PrimitiveCount(last.pre) >= 4
  /\ \E k \in 1..Len(last.collisions) : \E l \in 1..Len(last.collisions) :
       /\ Has(last.pre.cyl, last.collisions[k][1])
       /\ Has(last.pre.cyl, last.collisions[k][2])
       /\ Has(last.pre.cyl, last.collisions[l][1])
       /\ Has(last.pre.sph, last.collisions[l][2])

\* ------------------------------------------------------------------------
\* Claims about the data model
\* ------------------------------------------------------------------------

\* C18: in every reachable state every cylinder holds the same value in
\* radiusTop and in radiusBottom.
C18_RadiiKeptEqual ==
  \A i \in 1..Len(cylinderParams) :
    cylinderParams[i].radiusTop = cylinderParams[i].radiusBottom

\* the radius control has just given a cylinder another radius
C18_Witness ==
  /\ last.op = "edit"
  /\ \E i \in 1..Len(cylinderParams) :
       /\ i <= Len(last.pre.cyl)
       /\ cylinderParams[i].radiusTop # last.pre.cyl[i].radiusTop
       /\ cylinderParams[i].radiusTop # NaN

\* C19: in every reachable state every cylinder has height > 0 and every
\* sphere has radius > 0.
C19_PositiveSizes ==
  /\ \A i \in 1..Len(cylinderParams) :
       cylinderParams[i].height # NaN /\ cylinderParams[i].height > 0
  /\ \A i \in 1..Len(sphereParams) :
       sphereParams[i].radius # NaN /\ sphereParams[i].radius > 0

\* C20: for all spheres A and B the sphere-sphere test gives the same result
\* for (A, B) as for (B, A).
C20_SphereTestSymmetric ==
  \A i \in 1..Len(sphereParams) : \A j \in 1..Len(sphereParams) :
    checkSphereCollision(sphereParams[i], sphereParams[j])
      = checkSphereCollision(sphereParams[j], sphereParams[i])

\* two spheres of different radii at different places which the test, asked
\* in either order, finds colliding
C20_Witness ==
  \E i \in 1..Len(sphereParams) : \E j \in 1..Len(sphereParams) :
    /\ sphereParams[i].radius # sphereParams[j].radius
    /\ sphereParams[i].position # sphereParams[j].position
    /\ checkSphereCollision(sphereParams[i], sphereParams[j])
    /\ checkSphereCollision(sphereParams[j], sphereParams[i])

\* ------------------------------------------------------------------------
\* Claims about the material line of an import
\* ------------------------------------------------------------------------

\* line k of the text is made of whitespace-separated integers only
NumericLineAt(text, k) ==
  /\ ~StartsWith(Trim(text[k]), "rcc")
  /\ ~StartsWith(Trim(text[k]), "sph")
  /\ IsDigitsLine(Trim(text[k]))

\* the integers of line k
CodesAt(text, k) ==
  [i \in 1..Len(SplitSpaces(Trim(text[k]))) |-> SplitSpaces(Trim(text[k]))[i].ip]

\* the number of primitives recognized before line k
CountBefore(text, k) == RecognizedCount(SubSeq(text, 1, k - 1))

\* the imported primitives have, in the order of the file, the materials of
\* the codes
MaterialsFollow(codes) ==
  /\ Len(codes) = RecognizedCount(last.text)
  /\ \A j \in 1..RecognizedCount(last.text) :
       MaterialOfRecord(RecognizedKinds(last.text), j) = MaterialOfCode(codes[j])

\* the numeric lines of the text that have as many tokens as primitives were
\* recognized before them
LinesMatchingWhenRead(text) ==
  { k \in 1..Len(text) :
      NumericLineAt(text, k) /\ Len(CodesAt(text, k)) = CountBefore(text, k) }

\* C21 as stated: a successful import uses a numeric line as the material
\* list if and only if the line has as many tokens as primitives were parsed
\* when the line is read: with no such line every primitive is of concrete,
\* otherwise the materials are those of such a line.
C21_MaterialLineByCountWhenRead ==
  (last.op = "onload" /\ ~last.alert) =>
    IF LinesMatchingWhenRead(last.text) = {} THEN AllConcrete
    ELSE \E k \in LinesMatchingWhenRead(last.text) :
           MaterialsFollow(CodesAt(last.text, k))

\* C21, amended: a successful import uses the last numeric line of the text
\* as the material list if and only if the line has as many tokens as
\* primitives are recognized in the whole text; otherwise no line is used
\* and every primitive is of concrete.
C21_MaterialLineByFinalCount ==
  (last.op = "onload" /\ ~last.alert) =>
    IF Len(MaterialCodes(last.text)) = RecognizedCount(last.text)
    THEN MaterialsFollow(MaterialCodes(last.text))
    ELSE AllConcrete

\* the text whose numeric line comes before its two spheres has been
\* imported: no primitive was parsed when the line was read, and the spheres
\* are of steel and of wood
C21_Witness ==
  /\ last.op = "onload"
  /\ last.text = TextLeading
  /\ NumericLineAt(last.text, 1)
  /\ CountBefore(last.text, 1) = 0
  /\ sphereParams[1].materialType = "steel"
  /\ sphereParams[2].materialType = "wood"

\* C22: when the text holds, after its material line, another all-integer
\* line with as many tokens as primitives are recognized, the import takes
\* the trailing line as the material list: the primitives get the materials
\* of the trailing line's codes.
C22_TrailingLineConsumed ==
  (last.op = "onload" /\ Len(MaterialLines(last.text)) >= 2
     /\ RecognizedCount(last.text) >= 1
     /\ Len(MaterialCodes(last.text)) = RecognizedCount(last.text))
  => /\ ~last.alert
     /\ MaterialsFollow(
          CodesAt(MaterialLines(last.text), Len(MaterialLines(last.text))))

\* the text of one cylinder with the material line 2 and the trailing line 3
\* has been imported, and the cylinder is of wood
C22_Witness ==
  /\ last.op = "onload"
  /\ last.text = TextTrailing
  /\ Len(MaterialLines(last.text)) = 2
  /\ CodesAt(MaterialLines(last.text), 1) = << 2 >>
  /\ CodesAt(MaterialLines(last.text), 2) = << 3 >>
  /\ Len(cylinderParams) = 1
  /\ cylinderParams[1].materialType = "wood"

\* ------------------------------------------------------------------------
\* Claims about the cylinder tests
\* ------------------------------------------------------------------------

\* the cross product of the unit axis directions of two cylinders, and its
\* magnitude (TrigOne-scaled)
UnitCross(d1, d2) ==
  << MulT(d1[2], d2[3]) - MulT(d1[3], d2[2]),
     MulT(d1[3], d2[1]) - MulT(d1[1], d2[3]),
     MulT(d1[1], d2[2]) - MulT(d1[2], d2[1]) >>

UnitCrossMagnitude(cyl1, cyl2) ==
  Length(UnitCross(eulerToDirection(cyl1.rotation), eulerToDirection(cyl2.rotation)))

\* the answer of the branch of the distance between the axis lines, for the
\* cross product of the axes; a cross product of zero gives NaN, and false
LinesCloserThanRadii(cyl1, cyl2, a1, a2, cross) ==
  /\ Length(cross) # 0
  /\ AxisDistance(Vec3Sub(a2.start, a1.start), cross, Length(cross))
       < cyl1.radiusTop + cyl2.radiusTop

LineBranch(cyl1, cyl2) ==
  LinesCloserThanRadii(cyl1, cyl2, AxisOf(cyl1), AxisOf(cyl2),
    CrossVectors(Vec3Sub(AxisOf(cyl1).end, AxisOf(cyl1).start),
                 Vec3Sub(AxisOf(cyl2).end, AxisOf(cyl2).start)))

\* the answer of the parallel branch
ParallelBranch(cyl1, cyl2) ==
  CenterDistance(cyl1, cyl2) < cyl1.radiusTop + cyl2.radiusTop

\* C23: checkCylinderCollision takes the parallel branch exactly when the
\* cross product of the unit axis directions has a magnitude under 0.001,
\* whatever the heights: a pair of finite cylinders is reported as the
\* parallel branch answers under that magnitude, and as the branch of the
\* axis lines answers from it on.
C23_ParallelByUnitDirections ==
  last.op = "export" =>
    \A i \in 1..Len(last.pre.cyl) : \A j \in (i + 1)..Len(last.pre.cyl) :
      (~CylHasNaN(last.pre.cyl[i]) /\ ~CylHasNaN(last.pre.cyl[j]))
      => (Reported(last.pre.cyl[i].id, last.pre.cyl[j].id)
            <=> IF UnitCrossMagnitude(last.pre.cyl[i], last.pre.cyl[j])
                     < TrigOne \div 1000
                THEN ParallelBranch(last.pre.cyl[i], last.pre.cyl[j])
                ELSE LineBranch(last.pre.cyl[i], last.pre.cyl[j]))

\* the least distance between the lines through the centers of two
\* cylinders along their unit directions, for their cross product
LineDistanceAcross(cyl1, cyl2, cross) ==
  AxisDistance(Vec3Sub(cyl2.position, cyl1.position), cross, Length(cross))

LineDistance(cyl1, cyl2) ==
  LineDistanceAcross(cyl1, cyl2,
    UnitCross(eulerToDirection(cyl1.rotation), eulerToDirection(cyl2.rotation)))

\* C24: two finite cylinders that are not parallel (the cross product of
\* their unit directions has a magnitude of 0.001 or more) are reported as
\* colliding exactly when the least distance between the infinite lines of
\* their axes is strictly less than r1 + r2, wherever the cylinders lie
\* along those lines.
C24_LinesNotSegments ==
  last.op = "export" =>
    \A i \in 1..Len(last.pre.cyl) : \A j \in (i + 1)..Len(last.pre.cyl) :
      (~CylHasNaN(last.pre.cyl[i]) /\ ~CylHasNaN(last.pre.cyl[j])
         /\ UnitCrossMagnitude(last.pre.cyl[i], last.pre.cyl[j])
              >= TrigOne \div 1000)
      => (Reported(last.pre.cyl[i].id, last.pre.cyl[j].id)
            <=> LineDistance(last.pre.cyl[i], last.pre.cyl[j])
                  < last.pre.cyl[i].radiusTop + last.pre.cyl[j].radiusTop)

\* the coordinate of the center of the sphere along the axis of the cylinder,
\* from the center of the cylinder, for the unit direction dir of the axis
AlongFromCenter(cyl, sph, dir) == DotT(Vec3Sub(sph.position, cyl.position), dir)

\* the distance of the center of the sphere from the axis line
FromAxisLine(cyl, sph, dir, u) ==
  Length([i \in 1..3 |-> (sph.position[i] - cyl.position[i]) - MulT(u, dir[i])])

\* the projection of the sphere center falls strictly inside the segment
InsideSegment(cyl, u) == 2 * Abs(u) < Abs(cyl.height)

\* what the test has to answer for the axial coordinate u and the distance
\* rho from the axis line; past a cap the axial offset is |u| - |height| / 2
CylinderSphereRule(cyl, sph, u, rho) ==
  IF InsideSegment(cyl, u)
  THEN rho < cyl.radiusTop + sph.radius
  ELSE IF rho <= cyl.radiusTop
  THEN Abs(u) - Abs(cyl.height) \div 2 < sph.radius
  ELSE Norm3(rho - cyl.radiusTop, Abs(u) - Abs(cyl.height) \div 2, 0) < sph.radius

CylinderSphereAlong(cyl, sph, dir, u) ==
  CylinderSphereRule(cyl, sph, u, FromAxisLine(cyl, sph, dir, u))

CylinderSphereExpected(cyl, sph, dir) ==
  CylinderSphereAlong(cyl, sph, dir, AlongFromCenter(cyl, sph, dir))

\* C25: a finite cylinder of nonzero height and a finite sphere are reported
\* as colliding, when the sphere center projects strictly inside the axis
\* segment, exactly when its distance from the axis is under cylRadius +
\* sphereRadius; when the projection is clamped to an end, exactly when the
\* axial offset from the cap is under sphereRadius if the in-plane offset
\* is at most the cylinder radius, and otherwise exactly when
\* sqrt((in-plane offset - cylinder radius)^2 + axial offset^2) is under
\* sphereRadius.
C25_CylinderSphereTest ==
  last.op = "export" =>
    \A i \in 1..Len(last.pre.cyl) : \A j \in 1..Len(last.pre.sph) :
      (~CylHasNaN(last.pre.cyl[i]) /\ ~SphHasNaN(last.pre.sph[j])
         /\ last.pre.cyl[i].height # 0)
      => (Reported(last.pre.cyl[i].id, last.pre.sph[j].id)
            <=> CylinderSphereExpected(last.pre.cyl[i], last.pre.sph[j],
                  eulerToDirection(last.pre.cyl[i].rotation)))

\* the scan has reported a sphere beside the rim of a cap and a sphere over
\* the disk of a cap, and has not reported a sphere far from a cap
C25_Witness ==
  /\ last.op = "export"
  /\ \E i \in 1..Len(last.pre.cyl) : \E j \in 1..Len(last.pre.sph) :
       /\ ~CylHasNaN(last.pre.cyl[i]) /\ ~SphHasNaN(last.pre.sph[j])
       /\ ~InsideSegment(last.pre.cyl[i],
             AlongFromCenter(last.pre.cyl[i], last.pre.sph[j],
                             eulerToDirection(last.pre.cyl[i].rotation)))
       /\ FromAxisLine(last.pre.cyl[i], last.pre.sph[j],
             eulerToDirection(last.pre.cyl[i].rotation),
             AlongFromCenter(last.pre.cyl[i], last.pre.sph[j],
                             eulerToDirection(last.pre.cyl[i].rotation)))
            > last.pre.cyl[i].radiusTop
       /\ Reported(last.pre.cyl[i].id, last.pre.sph[j].id)
  /\ \E i \in 1..Len(last.pre.cyl) : \E j \in 1..Len(last.pre.sph) :
       /\ ~CylHasNaN(last.pre.cyl[i]) /\ ~SphHasNaN(last.pre.sph[j])
       /\ ~InsideSegment(last.pre.cyl[i],
             AlongFromCenter(last.pre.cyl[i], last.pre.sph[j],
                             eulerToDirection(last.pre.cyl[i].rotation)))
       /\ FromAxisLine(last.pre.cyl[i], last.pre.sph[j],
             eulerToDirection(last.pre.cyl[i].rotation),
             AlongFromCenter(last.pre.cyl[i], last.pre.sph[j],
                             eulerToDirection(last.pre.cyl[i].rotation)))
            <= last.pre.cyl[i].radiusTop
       /\ Reported(last.pre.cyl[i].id, last.pre.sph[j].id)
  /\ \E i \in 1..Len(last.pre.cyl) : \E j \in 1..Len(last.pre.sph) :
       /\ ~CylHasNaN(last.pre.cyl[i]) /\ ~SphHasNaN(last.pre.sph[j])
       /\ ~InsideSegment(last.pre.cyl[i],
             AlongFromCenter(last.pre.cyl[i], last.pre.sph[j],
                             eulerToDirection(last.pre.cyl[i].rotation)))
       /\ ~Reported(last.pre.cyl[i].id, last.pre.sph[j].id)

\* ------------------------------------------------------------------------
\* Claims about malformed numbers in an import
\* ------------------------------------------------------------------------

\* the recognized records of a text, in the order of its lines, split
RecognizedParts(text) ==
  [k \in 1..RecognizedCount(text) |->
     SplitSpaces(Trim(SelectSeq(text,
       LAMBDA l : \/ StartsWith(Trim(l), "rcc") /\ Len(SplitSpaces(Trim(l))) >= 9
                  \/ StartsWith(Trim(l), "sph") /\ Len(SplitSpaces(Trim(l))) >= 6)[k]))]

\* the token is not a number
MalformedToken(t) == t.k # "i" /\ t.k # "d"

\* the token does not start with a number
NoLeadingNumber(t) == t.k = "w"

\* the k-th recognized primitive of the imported text, as the scene holds it
CylinderOfRecord(kinds, k) ==
  cylinderParams[Cardinality({j \in 1..k : kinds[j] = "cylinder"})]

SphereOfRecord(kinds, k) ==
  sphereParams[Cardinality({j \in 1..k : kinds[j] = "sphere"})]

\* the import has succeeded and the scene holds the recognized primitives
ImportReplacedScene ==
  /\ ~last.alert
  /\ Len(cylinderParams) = Len(RecognizedRcc(last.text))
  /\ Len(sphereParams) = Len(RecognizedSph(last.text))

\* C26 as stated: every text with a recognized record is imported, and a
\* malformed numeric token of a recognized record leaves not-a-number in
\* the geometry fields computed from it.
C26_MalformedGivesNaN ==
  (last.op = "onload" /\ RecognizedCount(last.text) >= 1) =>
    /\ ImportReplacedScene
    /\ \A k \in 1..RecognizedCount(last.text) :
         IF RecognizedKinds(last.text)[k] = "sphere"
         THEN /\ \A i \in 1..3 :
                   MalformedToken(RecognizedParts(last.text)[k][2 + i])
                   => IsNaN(SphereOfRecord(RecognizedKinds(last.text), k).position[i])
              /\ MalformedToken(RecognizedParts(last.text)[k][6])
                   => IsNaN(SphereOfRecord(RecognizedKinds(last.text), k).radius)
         ELSE /\ \A i \in 1..3 :
                   (\/ MalformedToken(RecognizedParts(last.text)[k][2 + i])
                    \/ MalformedToken(RecognizedParts(last.text)[k][5 + i]))
                   => /\ IsNaN(CylinderOfRecord(RecognizedKinds(last.text), k).position[i])
                      /\ IsNaN(CylinderOfRecord(RecognizedKinds(last.text), k).height)
              /\ MalformedToken(RecognizedParts(last.text)[k][9])
                   => IsNaN(CylinderOfRecord(RecognizedKinds(last.text), k).radiusTop)

\* C26, amended: every text with a recognized record is imported; a token
\* of a recognized record that does not start with a number leaves
\* not-a-number in the geometry fields computed from it, and a radius token
\* that starts with a number followed by other characters gives that number.
C26_MalformedGivesNaNOrPrefix ==
  (last.op = "onload" /\ RecognizedCount(last.text) >= 1) =>
    /\ ImportReplacedScene
    /\ \A k \in 1..RecognizedCount(last.text) :
         IF RecognizedKinds(last.text)[k] = "sphere"
         THEN /\ \A i \in 1..3 :
                   NoLeadingNumber(RecognizedParts(last.text)[k][2 + i])
                   => IsNaN(SphereOfRecord(RecognizedKinds(last.text), k).position[i])
              /\ NoLeadingNumber(RecognizedParts(last.text)[k][6])
                   => IsNaN(SphereOfRecord(RecognizedKinds(last.text), k).radius)
              /\ RecognizedParts(last.text)[k][6].k = "t"
                   => SphereOfRecord(RecognizedKinds(last.text), k).radius
                        = RecognizedParts(last.text)[k][6].ip * One
         ELSE /\ \A i \in 1..3 :
                   (\/ NoLeadingNumber(RecognizedParts(last.text)[k][2 + i])
                    \/ NoLeadingNumber(RecognizedParts(last.text)[k][5 + i]))
                   => IsNaN(CylinderOfRecord(RecognizedKinds(last.text), k).position[i])
              /\ (\E i \in 1..3 : NoLeadingNumber(RecognizedParts(last.text)[k][5 + i]))
                   => IsNaN(CylinderOfRecord(RecognizedKinds(last.text), k).height)
              /\ NoLeadingNumber(RecognizedParts(last.text)[k][9])
                   => IsNaN(CylinderOfRecord(RecognizedKinds(last.text), k).radiusTop)
              /\ RecognizedParts(last.text)[k][9].k = "t"
                   => CylinderOfRecord(RecognizedKinds(last.text), k).radiusTop
                        = RecognizedParts(last.text)[k][9].ip * One

\* the text with x for a sphere coordinate, y for a direction coordinate and
\* the radius 2cm has been imported: the scene holds its sphere and its
\* cylinder, with not-a-number in the position and the height, and radius 2
C26_Witness ==
  /\ last.op = "onload"
  /\ last.text = TextMalformed
  /\ ~last.alert
  /\ Len(sphereParams) = 1 /\ Len(cylinderParams) = 1
  /\ IsNaN(sphereParams[1].position[1])
  /\ sphereParams[1].radius = One
  /\ IsNaN(cylinderParams[1].height)
  /\ IsNaN(cylinderParams[1].position[2])
  /\ cylinderParams[1].radiusTop = 2 * One

\* ------------------------------------------------------------------------
\* Claims about the edits, the selection and the ids
\* ------------------------------------------------------------------------

\* the step changes, of all primitives, the selected cylinder alone, which
\* becomes entry; the ids, their order and the selection stay, and the scene
\* value current before the step is kept as it was
OnlySelectedCylinderBecomes(entry) ==
  /\ Len(cylinderParams') = Len(cylinderParams)
  /\ \A i \in 1..Len(cylinderParams) :
       cylinderParams'[i] =
         IF cylinderParams[i].id = selectedObject THEN entry ELSE cylinderParams[i]
  /\ entry.id = selectedObject
  /\ sphereParams' = sphereParams
  /\ selectedObject' = selectedObject
  /\ selectedObjectType' = selectedObjectType
  /\ last'.pre = Scene
  /\ savedFrom' = savedFrom

OnlySelectedSphereBecomes(entry) ==
  /\ Len(sphereParams') = Len(sphereParams)
  /\ \A i \in 1..Len(sphereParams) :
       sphereParams'[i] =
         IF sphereParams[i].id = selectedObject THEN entry ELSE sphereParams[i]
  /\ entry.id = selectedObject
  /\ cylinderParams' = cylinderParams
  /\ selectedObject' = selectedObject
  /\ selectedObjectType' = selectedObjectType
  /\ last'.pre = Scene
  /\ savedFrom' = savedFrom

\* the selected primitive before the step
SelectedCylinder == cylinderParams[IndexOf(cylinderParams, selectedObject)]

SelectedSphere == sphereParams[IndexOf(sphereParams, selectedObject)]

EditChangesOnlyTarget ==
  /\ \A value \in RoundTripRadiusValues :
       updateRadius(value) =>
         IF selectedObjectType = "cylinder"
         THEN OnlySelectedCylinderBecomes(
                [SelectedCylinder EXCEPT !.radiusTop = value, !.radiusBottom = value])
         ELSE OnlySelectedSphereBecomes([SelectedSphere EXCEPT !.radius = value])
  /\ \A value \in RoundTripHeightValues :
       updateParam(value) =>
         OnlySelectedCylinderBecomes([SelectedCylinder EXCEPT !.height = value])
  /\ \A r \in RoundTripRotationValues :
       updateRotation(r[1], r[2]) =>
         OnlySelectedCylinderBecomes([SelectedCylinder EXCEPT !.rotation[r[1]] = r[2]])
  /\ \A value \in PositionValues :
       updatePosition(1, value) =>
         IF selectedObjectType = "cylinder"
         THEN OnlySelectedCylinderBecomes([SelectedCylinder EXCEPT !.position[1] = value])
         ELSE OnlySelectedSphereBecomes([SelectedSphere EXCEPT !.position[1] = value])
  /\ \A value \in { "steel", "wood" } :
       updateMaterialType(value) =>
         IF selectedObjectType = "cylinder"
         THEN OnlySelectedCylinderBecomes([SelectedCylinder EXCEPT !.materialType = value])
         ELSE OnlySelectedSphereBecomes([SelectedSphere EXCEPT !.materialType = value])

\* C27: every edit of the radius, the height, one rotation axis, one
\* position axis or the material gives a scene in which the targeted field
\* of the selected primitive holds the new value and nothing else differs:
\* the other primitives, the other fields of the selected primitive, the
\* ids and their order and the selection are as before, and the scene value
\* that was current before the edit is kept unmodified.
C27_EditsChangeOnlyTarget == [][EditChangesOnlyTarget]_vars

\* an edit has changed the height of the selected cylinder of a scene with
\* another cylinder and a sphere
C27_Witness ==
  /\ last.op = "edit"
  /\ Len(cylinderParams) >= 2 /\ Len(sphereParams) >= 1
  /\ selectedObjectType = "cylinder"
  /\ Has(cylinderParams, selectedObject)
  /\ SelectedCylinder.height
       # last.pre.cyl[IndexOf(last.pre.cyl, selectedObject)].height

\* C28: in every reachable state the selected id is a key of the map the
\* selected type names: of the cylinders when the type is cylinder, of the
\* spheres when it is sphere.
C28_SelectionInScene ==
  IF selectedObjectType = "cylinder" THEN Has(cylinderParams, selectedObject)
  ELSE selectedObjectType = "sphere" /\ Has(sphereParams, selectedObject)

\* an import of spheres alone has completed while a cylinder was selected
C28_Witness ==
  /\ last.op = "onload"
  /\ ~last.alert
  /\ last.pre.selType = "cylinder"
  /\ Len(cylinderParams) = 0
  /\ selectedObjectType = "sphere"
  /\ selectedObject = SphereId(1)

\* C29: in every reachable state the cylinder ids are cylinder1..cylinderN
\* and the sphere ids sphere1..sphereM, in insertion order; and addObject
\* appends one primitive of its kind under an id the scene did not hold,
\* leaves every existing primitive as it was and selects the new one.
C29_IdsSequential ==
  /\ \A i \in 1..Len(cylinderParams) : cylinderParams[i].id = CylinderId(i)
  /\ \A i \in 1..Len(sphereParams) : sphereParams[i].id = SphereId(i)
  /\ last.op = "add" =>
       \/ /\ Len(cylinderParams) = Len(last.pre.cyl) + 1
          /\ cylinderParams = Append(last.pre.cyl, cylinderParams[Len(cylinderParams)])
          /\ ~Has(last.pre.cyl, cylinderParams[Len(cylinderParams)].id)
          /\ sphereParams = last.pre.sph
          /\ selectedObjectType = "cylinder"
          /\ selectedObject = cylinderParams[Len(cylinderParams)].id
       \/ /\ Len(sphereParams) = Len(last.pre.sph) + 1
          /\ sphereParams = Append(last.pre.sph, sphereParams[Len(sphereParams)])
          /\ ~Has(last.pre.sph, sphereParams[Len(sphereParams)].id)
          /\ cylinderParams = last.pre.cyl
          /\ selectedObjectType = "sphere"
          /\ selectedObject = sphereParams[Len(sphereParams)].id

\* a sphere has been added to an imported scene of two spheres
C29_Witness ==
  /\ last.op = "add"
  /\ Len(last.pre.sph) = 2 /\ Len(last.pre.cyl) = 0
  /\ Len(sphereParams) = 3
  /\ selectedObject = SphereId(3)

\* ------------------------------------------------------------------------
\* Claims about the round trip of a mixed scene
\* ------------------------------------------------------------------------

\* C30: importing the file a completed export wrote from a scene of
\* cylinders and spheres succeeds and gives the same ids, each of the same
\* kind and of the same material as in the exported scene; the material
\* line is the only all-integer line of the file and has as many tokens as
\* the scene has primitives.
C30_MixedRoundTripKeepsMaterials ==
  (RoundTrip /\ savedFrom.cyl # << >> /\ savedFrom.sph # << >>)
  => /\ ~last.alert
     /\ Keys(cylinderParams) = Keys(savedFrom.cyl)
     /\ Keys(sphereParams) = Keys(savedFrom.sph)
     /\ \A i \in 1..Len(savedFrom.cyl) :
          cylinderParams[i].materialType = savedFrom.cyl[i].materialType
     /\ \A j \in 1..Len(savedFrom.sph) :
          sphereParams[j].materialType = savedFrom.sph[j].materialType
     /\ Len(MaterialLines(saved)) = 1
     /\ Len(MaterialCodes(saved)) = Len(savedFrom.cyl) + Len(savedFrom.sph)

\* a scene of cylinders and spheres holding two different materials other
\* than concrete has made the round trip
C30_Witness ==
  /\ RoundTrip
  /\ savedFrom.cyl # << >> /\ savedFrom.sph # << >>
  /\ \E i \in 1..Len(savedFrom.cyl) : \E j \in 1..Len(savedFrom.sph) :
       /\ savedFrom.cyl[i].materialType # "concrete"
       /\ savedFrom.sph[j].materialType # "concrete"
       /\ savedFrom.cyl[i].materialType # savedFrom.sph[j].materialType
       /\ cylinderParams[i].materialType = savedFrom.cyl[i].materialType
       /\ sphereParams[j].materialType = savedFrom.sph[j].materialType

=============================================================================
